---------------------------- MODULE Spec2Model ----------------------------
(***************************************************************************)
(* LAN-MEET: the TCP control server (ChatServer), the UDP media relay     *)
(* (run_udp_broadcast_server) and the client's file transfer workers      *)
(* (NetworkManager), modelled from src/unified_server.py and              *)
(* src/networking_module.py.                                              *)
(*                                                                         *)
(* Four specifications share the variables:                                *)
(*   SpecRelay      one relay instance and its clock                       *)
(*   Spec           the control server's connection handler threads:       *)
(*                  handshake, chat and presence, three connections        *)
(*   SpecFiles      the same threads handling uploads and the file         *)
(*                  registry, two connections                              *)
(*   SpecRoundTrip  an uploading client, the server and a downloading      *)
(*                  client, wired together by the two TCP byte streams     *)
(***************************************************************************)
EXTENDS Integers, Sequences, FiniteSets, TLC

None == "None"

\* what a failed lookup or call yields where the values are byte strings,
\* sizes, file objects or file_end's locals
NoBytes == <<-1>>

NoSize == -1

SeqToSet(s) == {s[i] : i \in 1..Len(s)}

(***************************************************************************)
(* Bounds of the model.                                                    *)
(***************************************************************************)
\* the relay's clock runs from 0 to MaxTime
MaxTime == 4
\* client_timeout of the relay instance (VIDEO_TIMEOUT = 200 s and
\* AUDIO_TIMEOUT = 200000 s in the source), in clock ticks of the model
ClientTimeout == 1

\* the longest file, in bytes, that the storage directory holds
MaxFileLen == 2
\* the capacity, in bytes, of a file object's write buffer
\* (io.DEFAULT_BUFFER_SIZE in CPython)
BufferSize == 1
\* the number of upload_start records the server handles in one run
MaxUploads == 2
\* the longest file, in bytes, that the uploading client sends
MaxDataLen == 4
\* the bytes one read of a file sender takes (TCP_BUFFER_SIZE = 4096 in the
\* source), scaled to the files of the model
ChunkSize == 2

\* the peer addresses (ip, port) that send datagrams to the relay
Addrs == {"X", "Y", "Z"}

\* the accepted TCP connections (socket objects) of the control server
Conns == {"c1", "c2", "c3"}

\* the connections that take part in file transfers
FileConns == {"c1", "c2"}

\* the usernames clients reply with in the handshake; "" is an empty reply
Names == {"alice", "bob", "carol"}

\* the usernames of the clients that transfer files
FileUsers == {"alice", "bob"}

Replies == Names \cup {"", " \n", " alice\n"}

\* the files of STORAGE_DIR, and the "filename" fields clients send: a plain
\* name, a second plain name, and a name with a directory part
BaseNames == {"a.txt", "b.txt"}

FileArgs == BaseNames \cup {"d/a.txt"}

\* chat bodies
Msgs == {"hi"}

\* the bytes of the file the uploading client sends
Bytes == {0, 77, 255}

VARIABLES
    relay_clients,  \* run_udp_broadcast_server: clients, in insertion order
    clock,          \* time.time()
    relay_ev,       \* what the relay's last loop iteration did
    connState,      \* ChatServer.handle_client: where each connection's thread is
    username,       \* handle_client's local username of each connection
    clients,        \* ChatServer.clients    {conn: username}
    usernames,      \* ChatServer.usernames  {username: conn}
    receiving_files,\* ChatServer.receiving_files {username: file_handle}
    available_files,\* ChatServer.available_files
    storage,        \* the regular files of STORAGE_DIR: name -> bytes
    fe_local,       \* handle_file_end's locals while its thread is inside it
    outbox,         \* the records the last step wrote to each connection
    ev,             \* the operation the last step handled
    uploads,        \* upload_start records handled so far
    wire,           \* per connection: the records sent by the client, unread
    inbox,          \* per connection: the records sent by the server, unread
    src,            \* the bytes of the file the uploading client sends
    up,             \* the uploading client's run_file_sender thread
    nm,             \* the downloading client's NetworkManager fields
    downloads,      \* the downloading client's Downloads directory
    task,           \* the server's run_file_sender_to_client thread
    tcp,            \* the byte streams of the TCP connections and their writers
    order,          \* the entries of the dict ChatServer.clients, in order
    bc,             \* per handler thread: the broadcasts it is in the middle of
    ui,             \* the main window's buttons and presenter fields
    media,          \* the NetworkManager's flags, sockets, handles and workers
    fan,            \* the chat records each handler thread is sending, and those received
    vid             \* the client's video workers: flags, capture, socket, payload

relayVars == <<relay_clients, clock, relay_ev>>

clientVars == <<wire, inbox, src, up, nm, downloads, task>>

extVars == <<tcp, order, bc, ui, media, fan, vid>>

serverVars == <<connState, username, clients, usernames, receiving_files,
                available_files, storage, fe_local, outbox, ev, uploads>>

vars == <<relay_clients, clock, relay_ev, connState, username, clients, usernames,
          receiving_files, available_files, storage, fe_local, outbox, ev, uploads,
          wire, inbox, src, up, nm, downloads, task, tcp, order, bc, ui, media, fan, vid>>

(***************************************************************************)
(* The media relay: run_udp_broadcast_server.                              *)
(* clients is a dict {addr: last_seen}; a dict keeps its keys in insertion *)
(* order, so it is a sequence of [addr, seen] entries.                     *)
(***************************************************************************)
DictKeys(d) == [i \in 1..Len(d) |-> d[i].addr]

DictHas(d, a) == \E i \in 1..Len(d) : d[i].addr = a

DictGet(d, a) == d[CHOOSE i \in 1..Len(d) : d[i].addr = a].seen

\* clients[addr] = t : an existing key keeps its place, a new key goes last
DictSet(d, a, t) ==
    IF DictHas(d, a)
    THEN [i \in 1..Len(d) |-> IF d[i].addr = a THEN [addr |-> a, seen |-> t] ELSE d[i]]
    ELSE Append(d, [addr |-> a, seen |-> t])

\* del clients[addr]
DictDel(d, a) == SelectSeq(d, LAMBDA e : e.addr # a)

\* the eviction test with >= for >: an entry exactly client_timeout old goes
TimedOutLoose(current_time, seen, client_timeout) == current_time - seen >= client_timeout

\* the eviction test of one entry (line 339)
TimedOut(current_time, seen, client_timeout) == current_time - seen > client_timeout

\* the forwarding test of one entry (line 344)
IsOtherPeer(client_addr, addr) == client_addr # addr

\* for client_addr in list(clients.keys()): evict, or forward to the others.
\* st = [clients, sent]; keys is the snapshot list(clients.keys()).
RECURSIVE RelayLoop(_, _, _, _)
RelayLoop(keys, st, addr, current_time) ==
    IF keys = <<>> THEN st
    ELSE LET client_addr == Head(keys) IN
         IF TimedOut(current_time, DictGet(st.clients, client_addr), ClientTimeout)
         THEN RelayLoop(Tail(keys),
                        [st EXCEPT !.clients = DictDel(st.clients, client_addr)],
                        addr, current_time)
         ELSE IF IsOtherPeer(client_addr, addr)
         THEN RelayLoop(Tail(keys),
                        [st EXCEPT !.sent = Append(st.sent, client_addr)],
                        addr, current_time)
         ELSE RelayLoop(Tail(keys), st, addr, current_time)

NoRelayEv == [kind |-> "none", from |-> None, now |-> 0, before |-> <<>>,
              sent |-> <<>>, failed |-> {}, delivered |-> <<>>]

\* sendto raising out of the loop: the peers before the failing one have the
\* datagram and the server has crashed
SendOutcomeUncaught(sent, failing) ==
    IF failing = {} THEN [delivered |-> sent, kind |-> "datagram"]
    ELSE LET k == CHOOSE i \in 1..Len(sent) : sent[i] \in failing
         IN  [delivered |-> SubSeq(sent, 1, k - 1), kind |-> "crashed"]

\* lines 345-348: a sendto that raises is logged; the peers whose sendto did
\* not raise have the datagram, and the loop goes on
SendOutcome(sent, failing) ==
    [delivered |-> SelectSeq(sent, LAMBDA a : a \notin failing), kind |-> "datagram"]

\* one iteration of the loop for a datagram received from addr.  The two calls
\* of time.time() (lines 334 and 336) read the clock at t1 = clock and at a
\* later or equal t2.  sendto may fail for a peer (line 347).
RelayDatagram(addr) ==
    /\ relay_ev.kind # "crashed"
    /\ \E t2 \in clock..MaxTime :
        LET stored == DictSet(relay_clients, addr, clock)
            out    == RelayLoop(DictKeys(stored), [clients |-> stored, sent |-> <<>>],
                                addr, t2)
        IN  \E failing \in {{}} \cup {{a} : a \in SeqToSet(out.sent)} :
            /\ relay_clients' = out.clients
            /\ clock' = t2
            /\ relay_ev' = [kind |-> SendOutcome(out.sent, failing).kind,
                            from |-> addr, now |-> t2,
                            before |-> stored, sent |-> out.sent,
                            failed |-> failing,
                            delivered |-> SendOutcome(out.sent, failing).delivered]
            /\ UNCHANGED <<serverVars, clientVars, extVars>>

\* recvfrom raises: logged, continue (lines 328-330)
RelayRecvError ==
    /\ relay_ev.kind # "crashed"
    /\ relay_ev' = [NoRelayEv EXCEPT !.kind = "recv_error", !.before = relay_clients]
    /\ UNCHANGED <<relay_clients, clock>>
    /\ UNCHANGED <<serverVars, clientVars, extVars>>

\* time passes between datagrams
Tick ==
    /\ clock < MaxTime
    /\ clock' = clock + 1
    /\ relay_ev' = [NoRelayEv EXCEPT !.kind = "tick"]
    /\ UNCHANGED relay_clients
    /\ UNCHANGED <<serverVars, clientVars, extVars>>

InitRelay ==
    /\ relay_clients = <<>>
    /\ clock = 0
    /\ relay_ev = NoRelayEv

NextRelay ==
    \/ \E addr \in Addrs : RelayDatagram(addr)
    \/ RelayRecvError
    \/ Tick

(***************************************************************************)
(* The control server: ChatServer.                                         *)
(*                                                                         *)
(* Each accepted connection is served by its own thread running            *)
(* handle_client; nothing in ChatServer takes a lock, so the threads       *)
(* interleave between the steps below.  A handler is written as an         *)
(* operator from the server's state s (a record) to the state it leaves,   *)
(* with s.raised set when an exception leaves handle_json_message; the     *)
(* action that runs it then runs handle_client's finally block.            *)
(***************************************************************************)
Live(cl) == {d \in Conns : cl[d] # None}

NoOut == [d \in Conns |-> <<>>]

Cur == [clients |-> clients, usernames |-> usernames,
        receiving_files |-> receiving_files, available_files |-> available_files,
        storage |-> storage, outbox |-> NoOut, raised |-> FALSE]

Raise(s) == [s EXCEPT !.raised = TRUE]

\* os.path.basename
Basename(filename) == IF filename = "d/a.txt" THEN "a.txt" ELSE filename

\* ---- files of STORAGE_DIR and the file objects open(path, "wb") returns ----
\* A file object buffers what is written to it: buf is written to the file at
\* offset pos when the buffer is flushed, which happens inside write() when the
\* buffer is full, and in close().
\* the file's bytes after data is written at offset pos (a gap reads as zeros)
WriteAt(content, pos, data) ==
    LET n == IF Len(content) > pos + Len(data) THEN Len(content) ELSE pos + Len(data)
    IN  [i \in 1..n |->
            IF i > pos /\ i <= pos + Len(data) THEN data[i - pos]
            ELSE IF i <= Len(content) THEN content[i]
            ELSE 0]

NewHandle(path) == [path |-> path, pos |-> 0, buf |-> <<>>, closed |-> FALSE]

\* no entry in receiving_files
NoHandle == [path |-> None, pos |-> 0, buf |-> <<>>, closed |-> TRUE]

\* the file after the handle's buffer is flushed
Flushed(st, h) ==
    IF h.closed \/ h.buf = <<>> THEN st
    ELSE [st EXCEPT ![h.path] = WriteAt(@, h.pos, h.buf)]

\* file_handle.close(): flush; closing a closed file does nothing
CloseHandle(s, user) ==
    [s EXCEPT !.storage = Flushed(s.storage, s.receiving_files[user]),
              !.receiving_files[user].closed = TRUE,
              !.receiving_files[user].buf = <<>>]

\* ---- writing to connections ----
ChatMessage(from, msg, private) ==
    [type |-> "chat_message", from |-> from, msg |-> msg, private |-> private]

ErrorRecord(msg) == [type |-> "error", msg |-> msg]

\* send_json: a failing sendall is logged and swallowed
send_json(s, conn, obj) == [s EXCEPT !.outbox[conn] = Append(@, obj)]

\* broadcast_json: every connection of self.clients but sender_conn
broadcast_json(s, obj, sender_conn) ==
    [s EXCEPT !.outbox = [d \in Conns |->
        IF s.clients[d] # None /\ d # sender_conn
        THEN Append(s.outbox[d], obj) ELSE s.outbox[d]]]

\* broadcast_message: broadcast_json without a sender_conn
broadcast_message(s, message, sender_username) ==
    broadcast_json(s, ChatMessage(sender_username, message, FALSE), None)

UserList(un) == [type |-> "user_list", users |-> {n \in Names : un[n] # None}]

broadcast_user_list(s) == broadcast_json(s, UserList(s.usernames), None)

\* self.usernames.get(name)
UsernamesGet(un, name) == IF name \in Names THEN un[name] ELSE None

send_private_message(s, message, sender_username, recipient_username) ==
    LET recipient_conn == UsernamesGet(s.usernames, recipient_username)
        msg_obj == ChatMessage(sender_username, message, TRUE)
    IN  IF recipient_conn # None
        THEN LET s1 == send_json(s, recipient_conn, msg_obj)
             IN  IF s.usernames[sender_username] = None THEN Raise(s1)   \* KeyError
                 ELSE send_json(s1, s.usernames[sender_username], msg_obj)
        ELSE IF s.usernames[sender_username] = None THEN Raise(s)        \* KeyError
             ELSE send_json(s, s.usernames[sender_username],
                            ErrorRecord(<<"not found", recipient_username>>))

\* ---- base64 ----
\* A base64 string is the sequence of its characters, each the 6-bit value it
\* stands for, or Pad for "=".
Pad == 64

\* base64.b64encode: three bytes make four characters; a last group of one or
\* two bytes is padded
RECURSIVE b64encode(_)
b64encode(bytes) ==
    IF bytes = <<>> THEN <<>>
    ELSE LET k == IF Len(bytes) < 3 THEN Len(bytes) ELSE 3
             n == bytes[1] * 65536
                  + (IF k > 1 THEN bytes[2] * 256 ELSE 0)
                  + (IF k > 2 THEN bytes[3] ELSE 0)
         IN  << n \div 262144,
                (n \div 4096) % 64,
                IF k > 1 THEN (n \div 64) % 64 ELSE Pad,
                IF k > 2 THEN n % 64 ELSE Pad >>
             \o b64encode(SubSeq(bytes, k + 1, Len(bytes)))

RECURSIVE DecodeGroups(_)
DecodeGroups(chars) ==
    IF chars = <<>> THEN <<>>
    ELSE LET n == chars[1] * 262144 + chars[2] * 4096
                  + (IF chars[3] = Pad THEN 0 ELSE chars[3] * 64)
                  + (IF chars[4] = Pad THEN 0 ELSE chars[4])
             k == IF chars[3] = Pad THEN 1 ELSE IF chars[4] = Pad THEN 2 ELSE 3
         IN  SubSeq(<< n \div 65536, (n \div 256) % 256, n % 256 >>, 1, k)
             \o DecodeGroups(SubSeq(chars, 5, Len(chars)))

\* base64.b64decode: NoBytes when it raises (a missing "data" field, or a
\* string whose length is no multiple of four: "Incorrect padding")
b64decode(chars) ==
    IF chars = NoBytes \/ Len(chars) % 4 # 0 THEN NoBytes ELSE DecodeGroups(chars)

\* ---- file transfer handlers ----
\* open_ok: whether open(save_path, "wb") succeeds
handle_upload_start(s, filename, user, open_ok) ==
    IF filename = None THEN s
    ELSE LET base == Basename(filename)
             s1 == IF s.receiving_files[user] # NoHandle THEN CloseHandle(s, user) ELSE s
         IN  IF open_ok
             THEN [s1 EXCEPT !.receiving_files[user] = NewHandle(base),
                             !.storage[base] = <<>>]
             ELSE IF s1.usernames[user] = None THEN Raise(s1)               \* KeyError
                  ELSE send_json(s1, s1.usernames[user], ErrorRecord("open failed"))

\* file_handle.write(data): bytes that do not fit in the buffer make write()
\* flush the buffer first
WriteHandle(s, user, data) ==
    LET h == s.receiving_files[user]
    IN  IF Len(h.buf) + Len(data) > BufferSize
        THEN [s EXCEPT !.storage = Flushed(s.storage, h),
                       !.receiving_files[user].pos = h.pos + Len(h.buf),
                       !.receiving_files[user].buf = data]
        ELSE [s EXCEPT !.receiving_files[user].buf = h.buf \o data]

\* encoded: the record's "data" field.  What b64decode raises is caught (line
\* 196), and so is the ValueError of a write to a closed file.
handle_file_chunk(s, encoded, user) ==
    LET h == s.receiving_files[user]
        data == b64decode(encoded)
    IN  IF h = NoHandle \/ data = NoBytes \/ h.closed THEN s
        ELSE WriteHandle(s, user, data)

\* os.path.getsize(os.path.join(STORAGE_DIR, filename)): NoSize when it raises
GetSize(st, filename) ==
    IF filename \in BaseNames /\ st[filename] # NoBytes THEN Len(st[filename]) ELSE NoSize

Announcement(filename, filesize, user) ==
    [type |-> "new_file_available", filename |-> filename, size |-> filesize,
     from |-> user]

NoFe == [announcement |-> Announcement(None, NoSize, None), filtered |-> <<>>]

\* the list comprehension of line 217
Filtered(files, filename) == SelectSeq(files, LAMBDA f : f.filename # filename)

\* handle_file_end up to the evaluation of line 217's right-hand side:
\* fe is the thread's locals [announcement, filtered], or NoFe
FileEndBegin(s, filename, user) ==
    LET h == s.receiving_files[user]
        s1 == [CloseHandle(s, user) EXCEPT !.receiving_files[user] = NoHandle]
        filesize == GetSize(s1.storage, filename)
    IN  IF h = NoHandle THEN [s |-> s, fe |-> NoFe]
        ELSE IF filesize = NoSize THEN [s |-> Raise(s1), fe |-> NoFe]
        ELSE [s |-> s1,
              fe |-> [announcement |-> Announcement(filename, filesize, user),
                      filtered |-> Filtered(s1.available_files, filename)]]

\* line 217's assignment
FileEndAssign(s, fe) == [s EXCEPT !.available_files = fe.filtered]

\* lines 218-221
FileEndAppend(s, fe, user) ==
    LET s1 == [s EXCEPT !.available_files = Append(@, fe.announcement)]
    IN  IF s1.usernames[user] = None THEN Raise(s1)                        \* KeyError
        ELSE broadcast_json(s1, fe.announcement, s1.usernames[user])

handle_file_list_request(s, conn) ==
    send_json(s, conn, [type |-> "FILE_LIST_UPDATE", files |-> s.available_files])

\* ---- handle_client ----
\* a finally block without the cleanup of lines 131-133
FinallyBlockKeepsSink(s, conn) ==
    IF s.clients[conn] = None THEN s
    ELSE LET user == s.clients[conn]
             s1 == [s EXCEPT !.clients[conn] = None, !.usernames[user] = None]
         IN  broadcast_user_list(broadcast_message(s1, <<"left", user>>, "System"))

\* the finally block (lines 120-136)
FinallyBlock(s, conn) ==
    IF s.clients[conn] = None THEN s
    ELSE LET user == s.clients[conn]
             s1 == [s EXCEPT !.clients[conn] = None, !.usernames[user] = None]
             s2 == IF s1.receiving_files[user] # NoHandle
                   THEN [CloseHandle(s1, user) EXCEPT !.receiving_files[user] = NoHandle]
                   ELSE s1
         IN  broadcast_user_list(broadcast_message(s2, <<"left", user>>, "System"))

\* The operation a step handled, for the claims: its kind, its connection and
\* that thread's username, the record's "to" or "filename" field, and what the
\* handler found: the live sessions, the username directory, the user's sink.
Ev(kind, conn, to, file) ==
    [kind |-> kind, conn |-> conn, user |-> username[conn], to |-> to, file |-> file,
     live |-> Live(clients), names |-> clients, dir |-> usernames,
     sink |-> IF username[conn] \in Names THEN receiving_files[username[conn]]
              ELSE NoHandle,
     raised |-> FALSE]

NoEv == [kind |-> "none", conn |-> None, user |-> None, to |-> None, file |-> None,
         live |-> {}, names |-> [c \in Conns |-> None],
         dir |-> [n \in Names |-> None], sink |-> NoHandle,
         raised |-> FALSE]

\* the handler of connection conn leaves the server in state s and its thread at
\* next; an exception ends the thread through the finally block
Commit(conn, s, next, e) ==
    LET f == IF s.raised THEN FinallyBlock(s, conn) ELSE s
    IN  /\ clients' = f.clients
        /\ usernames' = f.usernames
        /\ receiving_files' = f.receiving_files
        /\ available_files' = f.available_files
        /\ storage' = f.storage
        /\ outbox' = f.outbox
        /\ connState' = [connState EXCEPT ![conn] = IF s.raised THEN "closed" ELSE next]
        /\ username' = [username EXCEPT ![conn] = IF s.raised THEN None ELSE @]
        /\ ev' = [e EXCEPT !.raised = s.raised]

\* start(): accept, and the new thread's prompt (line 87)
Connect(conn) ==
    /\ connState[conn] = "closed"
    /\ Commit(conn, send_json(Cur, conn, [type |-> "prompt"]), "prompted",
              Ev("connect", conn, None, None))
    /\ UNCHANGED <<fe_local, uploads>>

\* conn.recv(1024).decode().strip() of the replies of the model
Strip(reply) ==
    CASE reply = " alice\n" -> "alice"
      [] reply = " \n" -> ""
      [] OTHER -> reply

\* the test of line 90
Refused(reply, un) == reply = "" \/ un[reply] # None

\* lines 88-92: read the reply, test it; a refused reply gets the refusal line
\* and the connection is closed by the finally block
HandshakeCheck(conn, reply) ==
    /\ connState[conn] = "prompted"
    /\ IF Refused(Strip(reply), usernames)
       THEN Commit(conn, Raise(send_json(Cur, conn, [type |-> "refused"])), "closed",
                   Ev("refuse", conn, reply, None))
       ELSE /\ clients' = clients
            /\ usernames' = usernames
            /\ receiving_files' = receiving_files
            /\ available_files' = available_files
            /\ storage' = storage
            /\ outbox' = NoOut
            /\ connState' = [connState EXCEPT ![conn] = "claiming"]
            /\ username' = [username EXCEPT ![conn] = Strip(reply)]
            /\ ev' = Ev("check", conn, reply, None)
    /\ UNCHANGED <<fe_local, uploads>>

\* lines 95-101: register, the acceptance line, the join notice, the user list
HandshakeRegister(conn) ==
    /\ connState[conn] = "claiming"
    /\ LET user == username[conn]
           s1 == [Cur EXCEPT !.clients[conn] = user, !.usernames[user] = conn]
           s2 == send_json(s1, conn, [type |-> "accepted"])
           s3 == broadcast_message(s2, <<"joined", user>>, "System")
       IN  Commit(conn, broadcast_user_list(s3), "live", Ev("accept", conn, user, None))
    /\ UNCHANGED <<fe_local, uploads>>

\* readline returns b"": the client is gone (lines 107-108), then the finally block
Disconnect(conn) ==
    /\ connState[conn] = "live"
    /\ Commit(conn, Raise(Cur), "closed", Ev("disconnect", conn, None, None))
    /\ UNCHANGED <<fe_local, uploads>>

\* {"type": "chat", "to": to, "msg": msg}
Chat(conn, to, msg) ==
    /\ connState[conn] = "live"
    /\ Commit(conn,
              IF to = "broadcast"
              THEN broadcast_message(Cur, <<"text", msg>>, username[conn])
              ELSE send_private_message(Cur, <<"text", msg>>, username[conn], to),
              "live", Ev("chat", conn, to, None))
    /\ UNCHANGED <<fe_local, uploads>>

\* {"type": "command", "cmd": "/users"}
UsersCommand(conn) ==
    /\ connState[conn] = "live"
    /\ Commit(conn, send_json(Cur, conn, UserList(usernames)), "live",
              Ev("users", conn, None, None))
    /\ UNCHANGED <<fe_local, uploads>>

\* {"type": "upload_start", "filename": filename}
UploadStart(conn, filename, open_ok) ==
    /\ connState[conn] = "live"
    /\ uploads' = IF filename = None THEN uploads ELSE uploads + 1
    /\ Commit(conn, handle_upload_start(Cur, filename, username[conn], open_ok), "live",
              Ev(IF open_ok THEN "upload_start" ELSE "upload_start_failed",
                 conn, None, filename))
    /\ UNCHANGED fe_local

\* {"type": "file_chunk", "data": encoded}
FileChunk(conn, encoded) ==
    /\ connState[conn] = "live"
    /\ Commit(conn, handle_file_chunk(Cur, encoded, username[conn]), "live",
              Ev("file_chunk", conn, None, None))
    /\ UNCHANGED <<fe_local, uploads>>

\* {"type": "file_end", "filename": filename}
FileEnd(conn, filename) ==
    /\ connState[conn] = "live"
    /\ LET r == FileEndBegin(Cur, filename, username[conn])
       IN  /\ Commit(conn, r.s, IF r.fe = NoFe THEN "live" ELSE "fe_assign",
                     Ev("file_end", conn, None, filename))
           /\ fe_local' = [fe_local EXCEPT ![conn] = r.fe]
    /\ UNCHANGED uploads

FileEndStore(conn) ==
    /\ connState[conn] = "fe_assign"
    /\ Commit(conn, FileEndAssign(Cur, fe_local[conn]), "fe_append",
              Ev("file_end_assign", conn, None, fe_local[conn].announcement.filename))
    /\ UNCHANGED <<fe_local, uploads>>

FileEndAnnounce(conn) ==
    /\ connState[conn] = "fe_append"
    /\ Commit(conn, FileEndAppend(Cur, fe_local[conn], username[conn]), "live",
              Ev("file_end_done", conn, None, fe_local[conn].announcement.filename))
    /\ fe_local' = [fe_local EXCEPT ![conn] = NoFe]
    /\ UNCHANGED uploads

\* {"type": "REQUEST_FILE_LIST"}
FileListRequest(conn) ==
    /\ connState[conn] = "live"
    /\ Commit(conn, handle_file_list_request(Cur, conn), "live",
              Ev("file_list", conn, None, None))
    /\ UNCHANGED <<fe_local, uploads>>

\* load_existing_files: one FileRecord per regular file of STORAGE_DIR
CachedRecord(filename, st) ==
    [type |-> "new_file_available", filename |-> filename, size |-> Len(st[filename]),
     from |-> "Server (Cached)"]

\* the storage directory the server is started on: a.txt, one byte long, is
\* left from an earlier run
StartupStorages ==
    { [f \in BaseNames |-> IF f = "a.txt" THEN <<0>> ELSE NoBytes] }

InitServer ==
    /\ storage \in StartupStorages
    /\ available_files =
          IF storage["a.txt"] # NoBytes THEN <<CachedRecord("a.txt", storage)>> ELSE <<>>
    /\ connState = [d \in Conns |-> "closed"]
    /\ username = [d \in Conns |-> None]
    /\ clients = [d \in Conns |-> None]
    /\ usernames = [n \in Names |-> None]
    /\ receiving_files = [n \in Names |-> NoHandle]
    /\ fe_local = [d \in Conns |-> NoFe]
    /\ outbox = NoOut
    /\ ev = NoEv
    /\ uploads = 0

\* ---- downloads ----
Min(a, b) == IF a < b THEN a ELSE b

\* a read that starts at the beginning of the file whatever the offset
ReadChunkFromStart(content, pos) == SubSeq(content, 1, Min(ChunkSize, Len(content)))

\* f.read(TCP_BUFFER_SIZE) at offset pos of a file holding content
ReadChunk(content, pos) == SubSeq(content, pos + 1, Min(pos + ChunkSize, Len(content)))

NoTask == [active |-> FALSE, conn |-> None, filepath |-> None, filename |-> None,
           pos |-> 0]

\* handle_download_request with the error record sent to everyone
handle_download_request_broadcast(s, filename, conn) ==
    IF filename = None \/ s.storage[Basename(filename)] # NoBytes THEN s
    ELSE broadcast_json(s, ErrorRecord(<<"not on server", filename>>), None)

\* handle_download_request: a file that exists is sent by a new thread
handle_download_request(s, filename, conn) ==
    IF filename = None \/ s.storage[Basename(filename)] # NoBytes THEN s
    ELSE send_json(s, conn, ErrorRecord(<<"not on server", filename>>))

\* {"type": "download_request", "filename": filename}
DownloadRequest(conn, filename) ==
    /\ connState[conn] = "live"
    /\ ~task.active
    /\ Commit(conn, handle_download_request(Cur, filename, conn), "live",
              Ev("download_request", conn, None, filename))
    /\ task' = IF filename # None /\ storage[Basename(filename)] # NoBytes
               THEN [active |-> TRUE, conn |-> conn,
                     filepath |-> Basename(filename), filename |-> filename,
                     pos |-> 0]
               ELSE task
    /\ UNCHANGED <<fe_local, uploads>>

\* run_file_sender_to_client: one read of the loop; an empty read ends the loop
\* and the file_end record follows
FileSenderTask ==
    /\ task.active
    /\ LET chunk == ReadChunk(storage[task.filepath], task.pos)
           obj   == IF chunk = <<>>
                    THEN [type |-> "file_end", filename |-> task.filename]
                    ELSE [type |-> "file_chunk", data |-> b64encode(chunk)]
       IN  /\ outbox' = send_json(Cur, task.conn, obj).outbox
           /\ task' = IF chunk = <<>> THEN NoTask
                      ELSE [task EXCEPT !.pos = @ + Len(chunk)]
    /\ ev' = [NoEv EXCEPT !.kind = "file_sender", !.conn = task.conn]
    /\ UNCHANGED <<connState, username, clients, usernames, receiving_files,
                   available_files, storage, fe_local, uploads>>

\* chat and presence, with the connections of Conns.  These handlers read the
\* two directory maps and write only to connections.
NextChat ==
    \/ \E conn \in Conns : Connect(conn) /\ UNCHANGED <<relayVars, extVars, clientVars>>
    \/ \E conn \in Conns, reply \in Replies :
          HandshakeCheck(conn, reply) /\ UNCHANGED <<relayVars, extVars, clientVars>>
    \/ \E conn \in Conns : HandshakeRegister(conn) /\ UNCHANGED <<relayVars, extVars, clientVars>>
    \/ \E conn \in Conns : Disconnect(conn) /\ UNCHANGED <<relayVars, extVars, clientVars>>
    \/ \E conn \in Conns, to \in {"broadcast", "nobody"} \cup Names, msg \in Msgs :
          Chat(conn, to, msg) /\ UNCHANGED <<relayVars, extVars, clientVars>>
    \/ \E conn \in Conns : UsersCommand(conn) /\ UNCHANGED <<relayVars, extVars, clientVars>>

\* the "data" fields of the file_chunk records: a chunk of one byte, and a
\* string that b64decode refuses
ChunkDatas == {b64encode(<<0>>), <<0>>}

\* the file of conn's sink stays within MaxFileLen bytes
FitsStorage(conn, encoded) ==
    LET h == receiving_files[username[conn]]
    IN  /\ h # NoHandle
        /\ b64decode(encoded) # NoBytes =>
              h.pos + Len(h.buf) + Len(b64decode(encoded)) <= MaxFileLen

\* uploads and the file registry, with the connections of FileConns
NextFiles ==
    \/ \E conn \in FileConns : Connect(conn) /\ UNCHANGED <<relayVars, extVars, clientVars>>
    \/ \E conn \in FileConns, reply \in FileUsers \cup {""} :
          HandshakeCheck(conn, reply) /\ UNCHANGED <<relayVars, extVars, clientVars>>
    \/ \E conn \in FileConns : HandshakeRegister(conn) /\ UNCHANGED <<relayVars, extVars, clientVars>>
    \/ \E conn \in FileConns : Disconnect(conn) /\ UNCHANGED <<relayVars, extVars, clientVars>>
    \/ \E conn \in FileConns, filename \in FileArgs \cup {None}, open_ok \in BOOLEAN :
          /\ uploads < MaxUploads
          /\ filename = None => open_ok       \* nothing is opened without a filename
          /\ UploadStart(conn, filename, open_ok)
          /\ UNCHANGED <<relayVars, extVars, clientVars>>
    \/ \E conn \in FileConns, encoded \in ChunkDatas :
          /\ connState[conn] = "live"
          /\ FitsStorage(conn, encoded)
          /\ FileChunk(conn, encoded)
          /\ UNCHANGED <<relayVars, extVars, clientVars>>
    \/ \E conn \in FileConns, filename \in FileArgs :
          \* without a sink the filename is not looked at: one stands for all
          /\ connState[conn] = "live"
          /\ receiving_files[username[conn]] = NoHandle => filename = "a.txt"
          /\ FileEnd(conn, filename)
          /\ UNCHANGED <<relayVars, extVars, clientVars>>
    \/ \E conn \in FileConns : FileEndStore(conn) /\ UNCHANGED <<relayVars, extVars, clientVars>>
    \/ \E conn \in FileConns : FileEndAnnounce(conn) /\ UNCHANGED <<relayVars, extVars, clientVars>>
    \/ \E conn \in FileConns : FileListRequest(conn) /\ UNCHANGED <<relayVars, extVars, clientVars>>

\* ---- the lines of the main loop (lines 105-114) ----
\* the lines a client sends that are no record of a recognized kind, as
\* bytes: a byte no UTF-8 text holds, the text M, and the text {}
ControlLines == {<<255>>, <<77>>, <<123, 125>>}

NoText == <<-1>>

\* line.decode(): UnicodeDecodeError (NoText) for a byte of 0xF8..0xFF
decode(line) == IF \E i \in 1..Len(line) : line[i] >= 248 THEN NoText ELSE line

\* json.loads of the texts of ControlLines: {} is the empty object, whose
\* "type" is None; JSONDecodeError (ok is FALSE) for the others
json_loads(text) == [ok |-> text = <<123, 125>>, type |-> None]

\* the body of the main loop for such a line: only JSONDecodeError is caught
\* (113); handle_json_message has no branch for the kind of {}
ReadLine(s, line) ==
    IF decode(line) = NoText THEN Raise(s)
    ELSE IF ~json_loads(decode(line)).ok THEN s
    ELSE s

ControlLine(conn, line) ==
    /\ connState[conn] = "live"
    /\ Commit(conn, ReadLine(Cur, line), "live", Ev("line", conn, None, None))
    /\ UNCHANGED <<fe_local, uploads>>

\* downloads, with the connections and users of the file transfers
NextDownload ==
    \/ \E conn \in FileConns : Connect(conn) /\ UNCHANGED <<relayVars, extVars, clientVars>>
    \/ \E conn \in FileConns, reply \in FileUsers :
          HandshakeCheck(conn, reply) /\ UNCHANGED <<relayVars, extVars, clientVars>>
    \/ \E conn \in FileConns : HandshakeRegister(conn) /\ UNCHANGED <<relayVars, extVars, clientVars>>
    \/ \E conn \in FileConns : Disconnect(conn) /\ UNCHANGED <<relayVars, extVars, clientVars>>
    \/ \E conn \in FileConns :
          /\ uploads < MaxUploads
          /\ UploadStart(conn, "a.txt", TRUE)
          /\ UNCHANGED <<relayVars, extVars, clientVars>>
    \/ \E conn \in FileConns, filename \in FileArgs \cup {None} :
          /\ DownloadRequest(conn, filename)
          /\ UNCHANGED <<relayVars, extVars, wire, inbox, src, up, nm, downloads>>
    \/ FileSenderTask /\ UNCHANGED <<relayVars, extVars, wire, inbox, src, up, nm, downloads>>
    \/ \E conn \in FileConns, line \in ControlLines :
          ControlLine(conn, line) /\ UNCHANGED <<relayVars, extVars, clientVars>>

(***************************************************************************)
(* The round trip: an uploading client (connection Uploader), the server   *)
(* and a downloading client (connection Downloader).  The clients' records *)
(* travel in wire, the server's in inbox, both in the order sent (TCP).    *)
(***************************************************************************)
Uploader == "c1"

Downloader == "c2"

\* send_json_line of the client on conn
send_json_line(conn, obj) == wire' = [wire EXCEPT ![conn] = Append(@, obj)]

\* what the server wrote in this step reaches the clients' streams
Deliver == inbox' = [d \in Conns |-> inbox[d] \o outbox'[d]]

\* ---- the uploading client ----
IdleSender == [phase |-> "idle", filename |-> None, filesize |-> 0, sent |-> 0]

\* upload_file(path): the upload_start record, and the run_file_sender thread
upload_file(filename) ==
    /\ up.phase = "idle"
    /\ send_json_line(Uploader, [type |-> "upload_start", filename |-> filename,
                                 size |-> Len(src)])
    /\ up' = [phase |-> "sending", filename |-> filename, filesize |-> Len(src),
              sent |-> 0]
    /\ UNCHANGED <<serverVars, relayVars, extVars, inbox, src, nm, downloads, task>>

\* run_file_sender: one iteration of "while sent < filesize"
FileSenderChunk ==
    /\ up.phase = "sending"
    /\ up.sent < up.filesize
    /\ LET chunk == ReadChunk(src, up.sent)
       IN  /\ chunk # <<>>
           /\ send_json_line(Uploader, [type |-> "file_chunk", data |-> b64encode(chunk)])
           /\ up' = [up EXCEPT !.sent = @ + Len(chunk)]
    /\ UNCHANGED <<serverVars, relayVars, extVars, inbox, src, nm, downloads, task>>

\* run_file_sender: after the loop, the file_end record
FileSenderEnd ==
    /\ up.phase = "sending"
    /\ ~(up.sent < up.filesize)
    /\ send_json_line(Uploader, [type |-> "file_end", filename |-> up.filename])
    /\ up' = [up EXCEPT !.phase = "done"]
    /\ UNCHANGED <<serverVars, relayVars, extVars, inbox, src, nm, downloads, task>>

\* the server has handled the uploader's file_end
UploadCompleted ==
    /\ up.phase = "done"
    /\ wire[Uploader] = <<>>
    /\ connState[Uploader] \notin {"fe_assign", "fe_append"}

\* ---- the server's side of the two streams ----
\* handle_client's main loop reads the next record of conn
Reads(conn, type) ==
    /\ connState[conn] = "live"
    /\ wire[conn] # <<>>
    /\ Head(wire[conn]).type = type

Consume(conn) == wire' = [wire EXCEPT ![conn] = Tail(@)]

ServeUploadStart(conn) ==
    /\ Reads(conn, "upload_start")
    /\ UploadStart(conn, Head(wire[conn]).filename, TRUE)
    /\ Consume(conn) /\ Deliver
    /\ UNCHANGED <<relayVars, extVars, src, up, nm, downloads, task>>

ServeFileChunk(conn) ==
    /\ Reads(conn, "file_chunk")
    /\ FileChunk(conn, Head(wire[conn]).data)
    /\ Consume(conn) /\ Deliver
    /\ UNCHANGED <<relayVars, extVars, src, up, nm, downloads, task>>

ServeFileEnd(conn) ==
    /\ Reads(conn, "file_end")
    /\ FileEnd(conn, Head(wire[conn]).filename)
    /\ Consume(conn) /\ Deliver
    /\ UNCHANGED <<relayVars, extVars, src, up, nm, downloads, task>>

ServeFileEndStore(conn) ==
    /\ FileEndStore(conn)
    /\ Deliver
    /\ UNCHANGED <<relayVars, extVars, wire, src, up, nm, downloads, task>>

ServeFileEndAnnounce(conn) ==
    /\ FileEndAnnounce(conn)
    /\ Deliver
    /\ UNCHANGED <<relayVars, extVars, wire, src, up, nm, downloads, task>>

\* the uploading client leaves once its upload is sent: the server reads the
\* end of the stream after the records before it
ServeDisconnect(conn) ==
    /\ conn = Uploader
    /\ up.phase = "done"
    /\ wire[conn] = <<>>
    /\ Disconnect(conn)
    /\ Deliver
    /\ UNCHANGED <<relayVars, extVars, wire, src, up, nm, downloads, task>>

ServeFileListRequest(conn) ==
    /\ Reads(conn, "REQUEST_FILE_LIST")
    /\ FileListRequest(conn)
    /\ Consume(conn) /\ Deliver
    /\ UNCHANGED <<relayVars, extVars, src, up, nm, downloads, task>>

ServeDownloadRequest(conn) ==
    /\ Reads(conn, "download_request")
    /\ DownloadRequest(conn, Head(wire[conn]).filename)
    /\ Consume(conn) /\ Deliver
    /\ UNCHANGED <<relayVars, extVars, src, up, nm, downloads>>

FileSenderToClient ==
    /\ FileSenderTask
    /\ Deliver
    /\ UNCHANGED <<relayVars, extVars, wire, src, up, nm, downloads>>

\* ---- the downloading client ----
\* fresh records that the file list was requested after the upload completed
IdleManager ==
    [phase |-> "idle", file_save_handle |-> NoHandle, file_receiving_size |-> 0,
     file_received_bytes |-> 0, current_download_filename |-> None,
     file_list |-> <<>>, completed |-> None, fresh |-> FALSE, overlapped |-> FALSE]

request_file_list ==
    /\ nm.phase = "idle"
    /\ send_json_line(Downloader, [type |-> "REQUEST_FILE_LIST", from |-> "bob"])
    /\ nm' = [nm EXCEPT !.phase = "listing", !.fresh = UploadCompleted]
    /\ UNCHANGED <<serverVars, relayVars, extVars, inbox, src, up, downloads, task>>

\* request_file_download(offer), for an entry of the list received
request_file_download(offer) ==
    /\ nm.phase = "listed"
    /\ send_json_line(Downloader, [type |-> "download_request",
                                   filename |-> offer.filename])
    /\ downloads' = [downloads EXCEPT ![offer.filename] = <<>>]
    /\ nm' = [nm EXCEPT !.phase = "downloading",
                        !.file_save_handle = NewHandle(offer.filename),
                        !.file_receiving_size = offer.size,
                        !.file_received_bytes = 0,
                        !.current_download_filename = offer.filename]
    /\ UNCHANGED <<serverVars, relayVars, extVars, inbox, src, up, task>>

\* request_file_download(offer) called while a download is under way: the
\* function tests nothing.  open(save_path, "wb") truncates the new file;
\* the assignment then drops the last reference to the file object that was
\* in file_save_handle, which closes it and flushes its buffer.
\* overlapped: this has happened once.
request_file_download_again(offer) ==
    /\ nm.phase = "downloading"
    /\ ~nm.overlapped
    /\ send_json_line(Downloader, [type |-> "download_request",
                                   filename |-> offer.filename])
    /\ downloads' = Flushed([downloads EXCEPT ![offer.filename] = <<>>],
                            nm.file_save_handle)
    /\ nm' = [nm EXCEPT !.overlapped = TRUE,
                        !.file_save_handle = NewHandle(offer.filename),
                        !.file_receiving_size = offer.size,
                        !.file_received_bytes = 0,
                        !.current_download_filename = offer.filename]
    /\ UNCHANGED <<serverVars, relayVars, extVars, inbox, src, up, task>>

\* file_save_handle.write(data) on the files dl of the Downloads directory
FileWrite(dl, h, data) ==
    IF Len(h.buf) + Len(data) > BufferSize
    THEN [dl |-> Flushed(dl, h), h |-> [h EXCEPT !.pos = h.pos + Len(h.buf), !.buf = data]]
    ELSE [dl |-> dl, h |-> [h EXCEPT !.buf = h.buf \o data]]

\* NetworkManager.handle_file_chunk; c = [nm, dl]
nm_handle_file_chunk(c, obj) ==
    LET h == c.nm.file_save_handle
        data == b64decode(obj.data)
    IN  IF h = NoHandle THEN c
        ELSE IF data = NoBytes
        THEN [nm |-> [c.nm EXCEPT !.file_save_handle = NoHandle],
              dl |-> Flushed(c.dl, h)]
        ELSE LET w == FileWrite(c.dl, h, data)
             IN  [nm |-> [c.nm EXCEPT !.file_save_handle = w.h,
                                      !.file_received_bytes = @ + Len(data)],
                  dl |-> w.dl]

\* handle_file_end without the close: what the buffer holds never reaches the file
nm_handle_file_end_unclosed(c, obj) ==
    IF c.nm.file_save_handle = NoHandle THEN c
    ELSE [nm |-> [c.nm EXCEPT !.file_save_handle = NoHandle,
                              !.completed = obj.filename,
                              !.phase = "complete",
                              !.file_received_bytes = 0,
                              !.file_receiving_size = 0],
          dl |-> c.dl]

\* NetworkManager.handle_file_end: close, then emit file_recv_complete(filename)
nm_handle_file_end(c, obj) ==
    IF c.nm.file_save_handle = NoHandle THEN c
    ELSE [nm |-> [c.nm EXCEPT !.file_save_handle = NoHandle,
                              !.completed = obj.filename,
                              !.phase = "complete",
                              !.file_received_bytes = 0,
                              !.file_receiving_size = 0],
          dl |-> Flushed(c.dl, c.nm.file_save_handle)]

\* run_chat_listener: one record of the stream; the records that only raise an
\* event for the user interface leave the fields as they are
run_chat_listener ==
    /\ inbox[Downloader] # <<>>
    /\ LET obj == Head(inbox[Downloader])
           c   == [nm |-> nm, dl |-> downloads]
           r   == CASE obj.type = "FILE_LIST_UPDATE" ->
                          [c EXCEPT !.nm.file_list = obj.files,
                                    !.nm.phase = IF @ = "listing" THEN "listed" ELSE @]
                    [] obj.type = "file_chunk" -> nm_handle_file_chunk(c, obj)
                    [] obj.type = "file_end" -> nm_handle_file_end(c, obj)
                    [] OTHER -> c
       IN  /\ nm' = r.nm
           /\ downloads' = r.dl
    /\ inbox' = [inbox EXCEPT ![Downloader] = Tail(@)]
    /\ UNCHANGED <<serverVars, relayVars, extVars, wire, src, up, task>>

\* the files the uploading client sends
RECURSIVE SeqsUpTo(_, _)
SeqsUpTo(S, n) ==
    IF n = 0 THEN {<<>>}
    ELSE LET shorter == SeqsUpTo(S, n - 1)
         IN  shorter \cup {Append(q, b) : q \in shorter, b \in S}

(***************************************************************************)
(* The bytes of a TCP connection.  send_json (server) and send_json_line   *)
(* (client) hand one record line to socket.sendall without holding a lock. *)
(* sendall is a loop of send() calls, each of which writes as many of the  *)
(* remaining bytes as the socket buffer takes and runs with the            *)
(* interpreter lock released, so other threads run between two of them.    *)
(***************************************************************************)
LineLen == 2          \* bytes of a record line, the newline being the last

MaxRecords == 3       \* records sent in all

\* the two directions of one client's connection
Socks == {"conn", "chat_socket"}

\* the threads that write to them: on the server the handler thread of another
\* client fanning out a chat, a handler thread broadcasting a join or leave
\* notice, and the download task; on the client the GUI thread and the
\* upload thread
Writers == {"chat", "notice", "file_sender_to_client", "gui", "file_sender"}

SockOf(w) == IF w \in {"gui", "file_sender"} THEN "chat_socket" ELSE "conn"

\* (json.dumps(obj) + "\n").encode() of the n-th record of writer w
Line(w, n) == [k \in 1..LineLen |-> [writer |-> w, rec |-> n, pos |-> k]]

InitTcp ==
    tcp = [stream |-> [s \in Socks |-> <<>>],
           pending |-> [w \in Writers |-> <<>>],
           count |-> [w \in Writers |-> 0],
           total |-> 0]

\* send_json / send_json_line: the line is built and sendall is entered
SendallBegin(w) ==
    /\ tcp.pending[w] = <<>>
    /\ tcp.total < MaxRecords
    /\ tcp' = [tcp EXCEPT !.pending[w] = Line(w, tcp.count[w] + 1),
                          !.count[w] = @ + 1,
                          !.total = @ + 1]

\* one send() of sendall's loop: the socket takes k of the remaining bytes
SendallSend(w, k) ==
    /\ k \in 1..Len(tcp.pending[w])
    /\ tcp' = [tcp EXCEPT !.stream[SockOf(w)] = @ \o SubSeq(tcp.pending[w], 1, k),
                          !.pending[w] = SubSeq(@, k + 1, Len(@))]

NextWire ==
    \/ \E w \in Writers : 
          SendallBegin(w) /\ UNCHANGED <<relayVars, serverVars, clientVars, order, bc, ui, media, fan, vid>>
    \/ \E w \in Writers, k \in 1..LineLen : 
          SendallSend(w, k) /\ UNCHANGED <<relayVars, serverVars, clientVars, order, bc, ui, media, fan, vid>>

(***************************************************************************)
(* Broadcasts, one dict entry at a time.  broadcast_json is                *)
(*     for conn in self.clients: if conn != sender_conn: send_json(...)    *)
(* run by the handler thread of the connection that caused it, with no     *)
(* lock: the other handler threads insert into and delete from             *)
(* self.clients between two turns of the loop.  A dict keeps its entries   *)
(* in insertion order; del leaves a hole, an insertion appends.  The       *)
(* dict's iterator remembers the dict's size when it was created and its   *)
(* position in the entries, and each next() raises RuntimeError when the   *)
(* size differs, or when an entry is found after as many keys as the dict  *)
(* had were returned.  (The entries are only compacted when the dict is    *)
(* resized, which takes more insertions than MaxJoins.)                    *)
(***************************************************************************)
MaxJoins == 3         \* usernames accepted in all

Hole == "hole"

\* len(self.clients)
DictLen(ord) == Cardinality({i \in 1..Len(ord) : ord[i] # Hole})

\* conn in self.clients
InDict(ord, conn) == \E i \in 1..Len(ord) : ord[i] = conn

\* del self.clients[conn]
DelKey(ord, conn) == [i \in 1..Len(ord) |-> IF ord[i] = conn THEN Hole ELSE ord[i]]

\* a handler thread: where it is (pc), the record it is broadcasting, the
\* dict iterator (pos, used, len), the broadcasts still to do, where it goes
\* after them, and whether it is in handle_client's try or finally block;
\* sent and stable record the connections written to and the connections
\* that have been in the dict since the broadcast began
NoThread == [pc |-> "closed", obj |-> "none", pos |-> 0, used |-> 0, len |-> 0,
             sent |-> {}, stable |-> {}, todo |-> <<>>, after |-> "closed",
             where |-> "try"]

\* iter(self.clients) for the first of the records objs
StartBroadcast(t, objs, after, where, ord) ==
    [t EXCEPT !.pc = "iter", !.obj = Head(objs), !.todo = Tail(objs),
              !.pos = 0, !.used = DictLen(ord), !.len = DictLen(ord),
              !.sent = {}, !.stable = {d \in Conns : InDict(ord, d)},
              !.after = after, !.where = where]

BcEv(kind, conn, t) ==
    [kind |-> kind, conn |-> conn, obj |-> t.obj, where |-> t.where,
     sent |-> t.sent, stable |-> t.stable]

InitOrder == order = <<>>

InitBc == bc = [th |-> [d \in Conns |-> NoThread],
                ev |-> BcEv("none", None, NoThread),
                joins |-> 0]

\* handle_client, lines 95-101: the username is accepted, the entry is
\* inserted and the join notice's broadcast begins
BcRegister(conn) ==
    /\ bc.th[conn].pc = "closed"
    /\ bc.joins < MaxJoins
    /\ order' = Append(order, conn)
    /\ LET t == StartBroadcast(bc.th[conn], <<"joined", "user_list">>, "live", "try", order')
       IN  bc' = [bc EXCEPT !.th[conn] = t, !.ev = BcEv("begin", conn, t),
                            !.joins = @ + 1]

\* handle_json_message, line 145: a chat record to everyone
BcChat(conn) ==
    /\ bc.th[conn].pc = "live"
    /\ LET t == StartBroadcast(bc.th[conn], <<"chat">>, "live", "try", order)
       IN  bc' = [bc EXCEPT !.th[conn] = t, !.ev = BcEv("begin", conn, t)]
    /\ UNCHANGED order

\* handle_client's finally block, lines 120-136: the entry is deleted and
\* the leave notice's broadcast begins; e is what led here
BcFinally(conn, e) ==
    /\ order' = DelKey(order, conn)
    /\ LET gone == [d \in Conns |-> [bc.th[d] EXCEPT !.stable = @ \ {conn}]]
           t == StartBroadcast(gone[conn], <<"left", "user_list">>, "closed", "finally", order')
       IN  bc' = [bc EXCEPT !.th = [gone EXCEPT ![conn] = t], !.ev = e]

\* readline returns nothing: the peer has disconnected
BcDisconnect(conn) ==
    /\ bc.th[conn].pc = "live"
    /\ BcFinally(conn, BcEv("disconnect", conn, bc.th[conn]))

\* one turn of broadcast_json's loop: next() of the iterator and the body
BcNext(conn) ==
    LET t == bc.th[conn]
        rest == {i \in (t.pos + 1)..Len(order) : order[i] # Hole}
        i == CHOOSE j \in rest : \A k \in rest : j <= k
        raised == t.used # DictLen(order) \/ (rest # {} /\ t.len = 0)
    IN  /\ t.pc = "iter"
        /\ IF raised
           THEN \* RuntimeError leaves broadcast_json
                IF t.where = "try"
                THEN BcFinally(conn, BcEv("raise", conn, t))
                ELSE /\ bc' = [bc EXCEPT !.th[conn] = NoThread, 
                                         !.ev = BcEv("raise", conn, t)]
                     /\ UNCHANGED order
           ELSE IF rest = {}
           THEN \* StopIteration: the next broadcast, or back to the caller
                /\ bc' = [bc EXCEPT 
                       !.th[conn] = IF t.todo # <<>>
                                    THEN StartBroadcast(t, t.todo, t.after, t.where, order)
                                    ELSE [NoThread EXCEPT !.pc = t.after],
                       !.ev = BcEv("end", conn, t)]
                /\ UNCHANGED order
           ELSE /\ LET t1 == [t EXCEPT !.pos = i, !.len = @ - 1, 
                                       !.sent = @ \cup {order[i]}]
                   IN  bc' = [bc EXCEPT !.th[conn] = t1, !.ev = BcEv("send", conn, t1)]
                /\ UNCHANGED order

NextBroadcast ==
    \/ \E conn \in Conns : 
          BcRegister(conn) /\ UNCHANGED <<relayVars, serverVars, clientVars, tcp, ui, media, fan, vid>>
    \/ \E conn \in Conns : 
          BcChat(conn) /\ UNCHANGED <<relayVars, serverVars, clientVars, tcp, ui, media, fan, vid>>
    \/ \E conn \in Conns : 
          BcDisconnect(conn) /\ UNCHANGED <<relayVars, serverVars, clientVars, tcp, ui, media, fan, vid>>
    \/ \E conn \in Conns : 
          BcNext(conn) /\ UNCHANGED <<relayVars, serverVars, clientVars, tcp, ui, media, fan, vid>>

(***************************************************************************)
(* The main window's video grid: update_remote_feed, on_user_list_update   *)
(* and rebuild_video_grid.  video_widgets is a dict {username: label}, in  *)
(* insertion order; a label's frame_type attribute is the kind of the last *)
(* envelope shown on it ('none' when it has none).                         *)
(***************************************************************************)
MaxEnvelopes == 5     \* media envelopes received

Peers == {"P", "Q"}

\* self.username
Me == "me"

\* the (username, frame_type) of the envelopes run_video_receiver emits
Envelopes == [username : Peers, frame_type : {"webcam", "screen"}]
                 \cup {[username |-> Me, frame_type |-> "webcam"]}

\* the user lists the server sends
UserLists == {<<Me>>, <<Me, "P">>, <<Me, "Q">>, <<Me, "P", "Q">>, <<Me, "Q", "P">>}

\* username in self.video_widgets
HasWidget(w, u) == \E i \in 1..Len(w) : w[i].uname = u

WidgetIndex(w, u) == CHOOSE i \in 1..Len(w) : w[i].uname = u

\* rebuild_video_grid with the last presenting label taken
rebuild_video_grid_last(s) ==
    LET w == s.video_widgets
        screens == {i \in 1..Len(w) : w[i].frame_type = "screen"}
    IN  [s EXCEPT !.presenter_username =
            IF screens = {} THEN None
            ELSE w[CHOOSE i \in screens : \A j \in screens : j <= i].uname]

\* rebuild_video_grid: the presenter is the first label, in the dict's
\* order, whose frame_type is 'screen'
rebuild_video_grid(s) ==
    LET w == s.video_widgets
        screens == {i \in 1..Len(w) : w[i].frame_type = "screen"}
    IN  [s EXCEPT !.presenter_username =
            IF screens = {} THEN None
            ELSE w[CHOOSE i \in screens : \A j \in screens : i <= j].uname]

\* update_remote_feed rebuilding only when a presentation starts
update_remote_feed_start_only(s, user, frame_type) ==
    IF user = Me THEN s
    ELSE LET w1 == IF HasWidget(s.video_widgets, user) THEN s.video_widgets
                   ELSE Append(s.video_widgets, [uname |-> user, frame_type |-> "none"])
             i == WidgetIndex(w1, user)
             s1 == [s EXCEPT !.video_widgets = [w1 EXCEPT ![i].frame_type = frame_type]]
         IN  IF frame_type = "screen" /\ w1[i].frame_type # "screen"
             THEN rebuild_video_grid(s1) ELSE s1

update_remote_feed(s, user, frame_type) ==
    IF user = Me THEN s
    ELSE LET w1 == IF HasWidget(s.video_widgets, user) THEN s.video_widgets
                   ELSE Append(s.video_widgets, [uname |-> user, frame_type |-> "none"])
             i == WidgetIndex(w1, user)
             old_frame_type == w1[i].frame_type
             needs_rebuild == \/ frame_type = "screen" /\ old_frame_type # "screen"
                              \/ frame_type # "screen" /\ old_frame_type = "screen"
             s1 == [s EXCEPT !.video_widgets = [w1 EXCEPT ![i].frame_type = frame_type]]
         IN  IF needs_rebuild THEN rebuild_video_grid(s1) ELSE s1

\* on_user_list_update, step 1: a label for every user of the list without one
RECURSIVE AddUsers(_, _)
AddUsers(w, user_list) ==
    IF user_list = <<>> THEN w
    ELSE LET u == Head(user_list)
         IN  AddUsers(IF u = Me \/ HasWidget(w, u) THEN w
                      ELSE Append(w, [uname |-> u, frame_type |-> "none"]),
                      Tail(user_list))

\* on_user_list_update rebuilding only when a label was added
on_user_list_update_added_only(s, user_list) ==
    LET w1 == AddUsers(s.video_widgets, user_list)
        w2 == SelectSeq(w1, LAMBDA x : x.uname \in SeqToSet(user_list))
        s1 == [s EXCEPT !.video_widgets = w2]
    IN  IF w1 # s.video_widgets THEN rebuild_video_grid(s1) ELSE s1

on_user_list_update(s, user_list) ==
    LET w1 == AddUsers(s.video_widgets, user_list)
        w2 == SelectSeq(w1, LAMBDA x : x.uname \in SeqToSet(user_list))
        rebuild_needed == w2 # s.video_widgets
        s1 == [s EXCEPT !.video_widgets = w2]
    IN  IF rebuild_needed THEN rebuild_video_grid(s1) ELSE s1

InitUi ==
    ui = [video_widgets |-> <<>>, presenter_username |-> None,
          log |-> <<>>, last |-> "init",
          cam_button |-> FALSE, screen_button |-> FALSE]

\* video_frame_received: the envelope e is delivered to update_remote_feed
Feed(e) ==
    /\ Len(ui.log) < MaxEnvelopes
    /\ ui' = [update_remote_feed(ui, e.username, e.frame_type) EXCEPT
                  !.log = Append(@, e), !.last = "feed"]

\* user_list_updated: a user list is delivered to on_user_list_update
UserListUpdate(user_list) ==
    ui' = [on_user_list_update(ui, user_list) EXCEPT !.last = "user_list"]

NextPresenter ==
    \/ \E e \in Envelopes : 
          Feed(e) /\ UNCHANGED <<relayVars, serverVars, clientVars, tcp, order, bc, media, fan, vid>>
    \/ \E user_list \in UserLists : 
          UserListUpdate(user_list) /\ UNCHANGED <<relayVars, serverVars, clientVars, tcp, order, bc, media, fan, vid>>

(***************************************************************************)
(* The client's media controls and workers: the camera and screen-share    *)
(* buttons of the main window (GUI thread), the NetworkManager's flags,    *)
(* sockets and handles, its worker threads run_chat_listener and           *)
(* run_video_sender, and stop_all.  The GUI's slots run one at a time; the *)
(* workers run between them and between the steps of each other.  A slot   *)
(* or method is an operator on g, the pair of ui and media.                *)
(***************************************************************************)
NoOp == [op |-> "none", checked |-> FALSE, sharing |-> FALSE, video |-> FALSE]

\* NetworkManager.__init__; mss is MSS_AVAILABLE
NewManager(mss) ==
    [mss |-> mss, _is_running |-> FALSE, _video_enabled |-> TRUE,
     _screen_share_enabled |-> FALSE, screen_capture_timer |-> FALSE,
     chat_socket |-> "none", chat_fileobj |-> FALSE, chat_fd |-> "none",
     video_socket |-> "none", audio_socket |-> "none",
     cap |-> "none", audio |-> "none", file_save_handle |-> "none",
     listener |-> "none", sender |-> "none", connected |-> FALSE,
     stopped |-> FALSE, last |-> NoOp]

InitMedia == media = NewManager(TRUE)

G == [ui |-> ui, media |-> media]

set_video_enabled(g, enabled) == [g EXCEPT !.media._video_enabled = enabled]

set_screen_share_enabled(g, enabled) ==
    IF ~g.media.mss /\ enabled THEN g       \* error.emit and return
    ELSE LET g1 == [g EXCEPT !.media._screen_share_enabled = enabled]
         IN  IF enabled
             THEN [set_video_enabled(g1, FALSE) EXCEPT !.media.screen_capture_timer = TRUE]
             ELSE [g1 EXCEPT !.media.screen_capture_timer = FALSE]

\* cam_button.setChecked(False): when the state changes, toggled(False) runs
\* toggle_camera(False), which is set_video_enabled(False)
UncheckCamera(g) ==
    IF g.ui.cam_button
    THEN set_video_enabled([g EXCEPT !.ui.cam_button = FALSE], FALSE)
    ELSE g

\* toggle_camera without the test of the screen-share button
toggle_camera_unguarded(g, checked) == set_video_enabled(g, checked)

toggle_camera(g, checked) ==
    IF checked
    THEN IF g.ui.screen_button
         THEN UncheckCamera(g)                \* warning; the request is refused
         ELSE set_video_enabled(g, TRUE)
    ELSE set_video_enabled(g, FALSE)

on_screen_share_toggled(g, checked, from_theme_change) ==
    IF from_theme_change THEN g
    ELSE IF checked THEN set_screen_share_enabled(UncheckCamera(g), TRUE)
    ELSE set_screen_share_enabled(g, FALSE)

\* what the slot op, called with checked, found
Op(op, checked) ==
    [op |-> op, checked |-> checked, sharing |-> media._screen_share_enabled,
     video |-> media._video_enabled]

\* the slot's result g becomes the state
Apply(g, o) ==
    /\ ui' = g.ui
    /\ media' = [g.media EXCEPT !.last = o]

\* the user clicks the camera button
ClickCamera ==
    LET checked == ~ui.cam_button
    IN  Apply(toggle_camera([G EXCEPT !.ui.cam_button = checked], checked),
              Op("toggle_camera", checked))

\* the user clicks the screen-share button
ClickScreen ==
    LET checked == ~ui.screen_button
    IN  Apply(on_screen_share_toggled([G EXCEPT !.ui.screen_button = checked],
                                      checked, FALSE),
              Op("on_screen_share_toggled", checked))

\* set_theme, lines 316-321
SetTheme ==
    Apply(on_screen_share_toggled(toggle_camera(G, ui.cam_button),
                                  ui.screen_button, TRUE),
          Op("set_theme", ui.cam_button))

\* on_connected: cam_button.setChecked(True)
OnConnected ==
    /\ media.connected
    /\ Apply(IF ui.cam_button THEN [G EXCEPT !.media.connected = FALSE]
             ELSE toggle_camera([G EXCEPT !.ui.cam_button = TRUE,
                                          !.media.connected = FALSE], TRUE),
             Op("on_connected", TRUE))

\* _capture_screen, lines 272-278: the capture failed
CaptureScreenError ==
    /\ media.screen_capture_timer
    /\ media._screen_share_enabled
    /\ media' = [media EXCEPT !._screen_share_enabled = FALSE,
                              !.last = Op("_capture_screen", FALSE)]
    /\ UNCHANGED ui

\* stop_all.  socket.close() marks the socket object closed and closes the
\* connection only when no file object made from the socket is open.
stop_all(m) ==
    [m EXCEPT !._is_running = FALSE,
              !.screen_capture_timer = FALSE,
              !.chat_socket = IF @ = "none" THEN @ ELSE "closed",
              !.chat_fd = IF @ = "open" /\ ~m.chat_fileobj THEN "closed" ELSE @,
              !.video_socket = IF @ = "none" THEN @ ELSE "closed",
              !.audio_socket = IF @ = "none" THEN @ ELSE "closed",
              !.cap = "none",
              !.audio = "none",
              !.file_save_handle = "none",
              !.stopped = TRUE]

\* connect_to_servers, every step succeeding: the sockets are created, the
\* control socket gets its file object, the workers are started
ConnectToServers ==
    /\ media.chat_socket = "none"
    /\ ~media.stopped
    /\ media' = [media EXCEPT !._is_running = TRUE,
                              !.chat_socket = "open", !.chat_fd = "open",
                              !.chat_fileobj = TRUE,
                              !.video_socket = "open", !.audio_socket = "open",
                              !.audio = "open",
                              !.listener = "loop", !.sender = "loop",
                              !.connected = TRUE,
                              !.last = Op("connect_to_servers", FALSE)]
    /\ UNCHANGED ui

\* connect_to_servers when pyaudio.PyAudio() or the audio socket raises
\* (144-161): the control session and the video workers are already running;
\* the error event is emitted and stop_all is called
ConnectAudioError ==
    /\ media.chat_socket = "none"
    /\ ~media.stopped
    /\ media' = [stop_all([media EXCEPT !._is_running = TRUE,
                                        !.chat_socket = "open", !.chat_fd = "open",
                                        !.chat_fileobj = TRUE,
                                        !.video_socket = "open",
                                        !.listener = "loop", !.sender = "loop"])
                   EXCEPT !.last = Op("audio_init_error", FALSE)]
    /\ UNCHANGED ui

\* closeEvent / disconnect
StopAll ==
    /\ media' = [stop_all(media) EXCEPT !.last = Op("stop_all", FALSE)]
    /\ UNCHANGED ui

\* request_file_download: the sink is opened (send_json_line is modelled
\* with the round trip)
RequestFileDownload ==
    /\ media' = [media EXCEPT !.file_save_handle = "open",
                              !.last = Op("request_file_download", FALSE)]
    /\ UNCHANGED ui

\* run_video_sender, line 446: the loop's test
SenderLoop ==
    /\ media.sender = "loop"
    /\ media' = [media EXCEPT !.sender = IF media._is_running THEN "body" ELSE "exited",
                              !.last = Op("run_video_sender", FALSE)]
    /\ UNCHANGED ui

\* run_video_sender, lines 447-546: one turn of the loop; ok tells whether
\* the device or the socket does what is asked of it
SenderBody(ok) ==
    /\ media.sender = "body"
    /\ media' =
         [(IF media._screen_share_enabled
           THEN \* sendto raised: lines 535-540
                IF ~ok /\ media._is_running
                THEN [media EXCEPT !._screen_share_enabled = FALSE] ELSE media
           ELSE IF media._video_enabled
           THEN IF media.cap = "none"
                THEN IF ok THEN [media EXCEPT !.cap = "open"]       \* VideoCapture(0)
                     ELSE [media EXCEPT !._video_enabled = FALSE]   \* cannot open
                ELSE media
           ELSE [media EXCEPT !.cap = "none"])                      \* cap.release()
          EXCEPT !.sender = "loop", !.last = Op("run_video_sender", ok)]
    /\ UNCHANGED ui

\* run_chat_listener, line 352: the loop's test
ListenerLoop ==
    /\ media.listener = "loop"
    /\ media' = [media EXCEPT !.listener = IF media._is_running THEN "readline" ELSE "exited",
                              !.last = Op("run_chat_listener", FALSE)]
    /\ UNCHANGED ui

\* run_chat_listener, lines 353-385: readline returns, with a record of the
\* server (kind "chat_message" or "file_end") or with nothing (the server
\* has closed the connection); while the connection is open and the server
\* is silent it does not return
ListenerReadline(kind) ==
    /\ media.listener = "readline"
    /\ media.chat_fd = "open"
    /\ media' =
         [(CASE kind = "file_end" -> [media EXCEPT !.file_save_handle = "none",
                                                   !.listener = "loop"]
             [] kind = "eof" -> [(IF media._is_running THEN stop_all(media) ELSE media)
                                    EXCEPT !.listener = "exited"]
             [] OTHER -> [media EXCEPT !.listener = "loop"])
          EXCEPT !.last = Op("run_chat_listener", kind = "eof")]
    /\ UNCHANGED ui

NextMedia ==
    \/ ClickCamera /\ UNCHANGED <<relayVars, serverVars, clientVars, tcp, order, bc, fan, vid>>
    \/ ClickScreen /\ UNCHANGED <<relayVars, serverVars, clientVars, tcp, order, bc, fan, vid>>
    \/ SetTheme /\ UNCHANGED <<relayVars, serverVars, clientVars, tcp, order, bc, fan, vid>>
    \/ OnConnected /\ UNCHANGED <<relayVars, serverVars, clientVars, tcp, order, bc, fan, vid>>
    \/ CaptureScreenError /\ UNCHANGED <<relayVars, serverVars, clientVars, tcp, order, bc, fan, vid>>
    \/ ConnectToServers /\ UNCHANGED <<relayVars, serverVars, clientVars, tcp, order, bc, fan, vid>>
    \/ ConnectAudioError /\ UNCHANGED <<relayVars, serverVars, clientVars, tcp, order, bc, fan, vid>>
    \/ StopAll /\ UNCHANGED <<relayVars, serverVars, clientVars, tcp, order, bc, fan, vid>>
    \/ RequestFileDownload /\ UNCHANGED <<relayVars, serverVars, clientVars, tcp, order, bc, fan, vid>>
    \/ SenderLoop /\ UNCHANGED <<relayVars, serverVars, clientVars, tcp, order, bc, fan, vid>>
    \/ \E ok \in BOOLEAN : 
          SenderBody(ok) /\ UNCHANGED <<relayVars, serverVars, clientVars, tcp, order, bc, fan, vid>>
    \/ ListenerLoop /\ UNCHANGED <<relayVars, serverVars, clientVars, tcp, order, bc, fan, vid>>
    \/ \E kind \in {"chat_message", "file_end", "eof"} : 
          ListenerReadline(kind) /\ UNCHANGED <<relayVars, serverVars, clientVars, tcp, order, bc, fan, vid>>

(***************************************************************************)
(* Chat records on their way.  A handler thread reads one record of its    *)
(* connection at a time and returns to readline only when the record's     *)
(* handler has returned: a chat is written to its recipients one sendall   *)
(* after the other, while the threads of other connections do the same.    *)
(***************************************************************************)
MaxChats == 3         \* chat records sent in all

\* the sessions, live throughout, in the order of the dict self.clients
FanOrder == <<"c1", "c2", "c3">>

NoFan == [pc |-> "readline", n |-> 0, rest |-> <<>>]

InitFan == fan = [th |-> [d \in Conns |-> NoFan],
                  sent |-> [d \in Conns |-> 0],
                  total |-> 0,
                  recv |-> [d \in Conns |-> <<>>]]

\* a record put before those the connection already carries
ArriveFirst(stream, rec) == <<rec>> \o stream

\* conn.sendall: the record follows those written to the connection before
Arrive(stream, rec) == Append(stream, rec)

\* the connections a chat is written to, in order: every entry of
\* self.clients, or the recipient and then the sender
Recipients(conn, to) == IF to = "broadcast" THEN FanOrder ELSE <<to, conn>>

\* the main loop reads conn's next chat record, its n-th
FanChat(conn, to) ==
    /\ fan.th[conn].pc = "readline"
    /\ fan.total < MaxChats
    /\ fan' = [fan EXCEPT !.th[conn] = [pc |-> "sending", n |-> fan.sent[conn] + 1,
                                        rest |-> Recipients(conn, to)],
                          !.sent[conn] = @ + 1,
                          !.total = @ + 1]

\* one send_json of the record: a sendall that raises is logged and the
\* record is lost for that connection
FanSend(conn, ok) ==
    LET t == fan.th[conn]
        d == Head(t.rest)
    IN  /\ t.pc = "sending"
        /\ fan' = [fan EXCEPT
                     !.recv[d] = IF ok THEN Arrive(@, [from |-> conn, n |-> t.n]) ELSE @,
                     !.th[conn] = IF Tail(t.rest) = <<>> THEN NoFan
                                  ELSE [t EXCEPT !.rest = Tail(@)]]

NextFan ==
    \/ \E conn \in Conns, to \in {"broadcast"} \cup Conns :
          /\ to # conn
          /\ FanChat(conn, to)
          /\ UNCHANGED <<relayVars, serverVars, clientVars, tcp, order, bc, ui, media, vid>>
    \/ \E conn \in Conns, ok \in BOOLEAN :
          FanSend(conn, ok) /\ UNCHANGED <<relayVars, serverVars, clientVars, tcp, order, bc, ui, media, vid>>

(***************************************************************************)
(* The client's video workers (networking_module.py): run_video_sender     *)
(* builds one envelope a turn and hands it to the UDP socket, and          *)
(* run_video_receiver takes the datagrams the relay forwards, while the    *)
(* GUI thread sets the flags and stop_all ends the session.                *)
(***************************************************************************)
MAX_UDP_PACKET == 60000

\* the largest payload of a UDP datagram over IPv4: sendto raises for more
MaxUdpPayload == 65535 - 8 - 20

\* bytes pickle.dumps adds to the frame: the dict, its keys, the username
PickleOverhead == 100

\* sizes of the JPEG buffers imencode returns for a 640x360 frame
FrameSizes == {20000, 60000, 64000, 70000}

NoFrame == -1

NoPayload == [username |-> None, frame_type |-> None, frame |-> NoFrame]

\* len(pickle.dumps(payload, protocol=4))
EnvelopeSize(payload) ==
    PickleOverhead + (IF payload.frame = NoFrame THEN 0 ELSE payload.frame)

VidEv(op, dgram, error) == [op |-> op, dgram |-> dgram, error |-> error]

InitVid ==
    vid = [username |-> "me", _is_running |-> TRUE, _video_enabled |-> TRUE,
           _screen_share_enabled |-> FALSE, cap |-> "none", video_socket |-> "open",
           sender |-> "while", payload |-> NoPayload, receiver |-> "while",
           ev |-> VidEv("none", NoPayload, None)]

\* while self._is_running (446)
VsWhile ==
    /\ vid.sender = "while"
    /\ vid' = [vid EXCEPT !.sender = IF vid._is_running THEN "choose" ELSE "exited",
                          !.ev = VidEv("sender_while", NoPayload, None)]

\* the choice with the camera before the screen
ChooseSourceCameraFirst(v, grab_ok, open_ok, read_ok, size) ==
    IF v._video_enabled
    THEN [v EXCEPT !.cap = "open", !.sender = "send",
                   !.payload = [username |-> v.username, frame_type |-> "webcam",
                                frame |-> size]]
    ELSE [v EXCEPT !.sender = "send",
                   !.payload = [username |-> v.username, frame_type |-> "screen",
                                frame |-> size]]

\* lines 448-528: the source of this turn's frame and the envelope's kind;
\* error is "webcam" when the camera cannot be opened
ChooseSource(v, grab_ok, open_ok, read_ok, size) ==
    IF v._screen_share_enabled
    THEN [v EXCEPT !.sender = "send",
                   !.payload = [username |-> v.username, frame_type |-> "screen",
                                frame |-> IF grab_ok THEN size ELSE NoFrame]]
    ELSE IF v._video_enabled
    THEN IF v.cap # "open" /\ ~open_ok
         THEN [v EXCEPT !.cap = "unopened", !._video_enabled = FALSE,
                        !.sender = "while", !.payload = NoPayload]
         ELSE IF ~read_ok
         THEN [v EXCEPT !.cap = "open", !.sender = "while", !.payload = NoPayload]
         ELSE [v EXCEPT !.cap = "open", !.sender = "send",
                        !.payload = [username |-> v.username, frame_type |-> "webcam",
                                     frame |-> size]]
    ELSE [v EXCEPT !.cap = IF @ = "open" THEN "none" ELSE @, !.sender = "send",
                   !.payload = [username |-> v.username, frame_type |-> "none",
                                frame |-> NoFrame]]

VsChoose(grab_ok, open_ok, read_ok, size) ==
    /\ vid.sender = "choose"
    /\ LET v == ChooseSource(vid, grab_ok, open_ok, read_ok, size)
       IN  vid' = [v EXCEPT !.ev = VidEv("sender_choose", NoPayload,
                                         IF vid._video_enabled /\ ~v._video_enabled
                                         THEN "Cannot open webcam" ELSE None)]

\* lines 531-540: the envelope is pickled and handed to sendto; sendto raises
\* on a closed socket and for a datagram too long, and the handler of the
\* turn's try block then turns screen sharing off
VsSend ==
    /\ vid.sender = "send"
    /\ LET tries  == vid._is_running
           raises == tries /\ (vid.video_socket = "closed"
                               \/ EnvelopeSize(vid.payload) > MaxUdpPayload)
       IN  vid' = [vid EXCEPT
                     !.sender = "while",
                     !.payload = NoPayload,
                     !._screen_share_enabled = IF raises /\ vid._is_running THEN FALSE ELSE @,
                     !.ev = VidEv(IF raises THEN "sender_raised" ELSE "sender_send",
                                  IF tries /\ ~raises THEN vid.payload ELSE NoPayload,
                                  None)]

\* toggle_camera -> set_video_enabled: refused while the screen is shared
VidSetVideo(enabled) ==
    /\ vid._is_running
    /\ enabled => ~vid._screen_share_enabled
    /\ vid' = [vid EXCEPT !._video_enabled = enabled,
                          !.ev = VidEv("set_video_enabled", NoPayload, None)]

\* set_screen_share_enabled with mss installed
VidSetScreenShare(enabled) ==
    /\ vid._is_running
    /\ vid' = [vid EXCEPT !._screen_share_enabled = enabled,
                          !._video_enabled = IF enabled THEN FALSE ELSE @,
                          !.ev = VidEv("set_screen_share_enabled", NoPayload, None)]

\* stop_all, as far as the video workers see it
VidStopAll ==
    /\ vid._is_running
    /\ vid' = [vid EXCEPT !._is_running = FALSE, !.video_socket = "closed",
                          !.cap = "none",
                          !.ev = VidEv("stop_all", NoPayload, None)]

\* while self._is_running (552)
VrWhile ==
    /\ vid.receiver = "while"
    /\ vid' = [vid EXCEPT !.receiver = IF vid._is_running THEN "recvfrom" ELSE "exited",
                          !.ev = VidEv("receiver_while", NoPayload, None)]

\* a receiver that gives up on a datagram it cannot unpickle
AfterRecvStrict(outcome) == IF outcome = "garbage" THEN "exited" ELSE "while"

\* where the receiver goes after recvfrom returned or raised: socket.timeout
\* continues (575), any other exception is printed (576-577), and the turn
\* ends at the loop's test
AfterRecv(outcome) == "while"

\* recvfrom (555) and the rest of the turn: a timeout, a datagram that
\* unpickles, one that does not, or OSError from the socket
VrRecv(outcome) ==
    /\ vid.receiver = "recvfrom"
    /\ vid.video_socket = "closed" => outcome = "oserror"
    /\ vid' = [vid EXCEPT !.receiver = AfterRecv(outcome),
                          !.ev = VidEv("recv_" \o outcome, NoPayload, None)]

NextVideo ==
    \/ VsWhile /\ UNCHANGED <<relayVars, serverVars, clientVars, tcp, order, bc, ui, media, fan>>
    \/ \E grab_ok, open_ok, read_ok \in BOOLEAN, size \in FrameSizes :
          /\ VsChoose(grab_ok, open_ok, read_ok, size)
          /\ UNCHANGED <<relayVars, serverVars, clientVars, tcp, order, bc, ui, media, fan>>
    \/ VsSend /\ UNCHANGED <<relayVars, serverVars, clientVars, tcp, order, bc, ui, media, fan>>
    \/ \E enabled \in BOOLEAN :
          VidSetVideo(enabled) /\ UNCHANGED <<relayVars, serverVars, clientVars, tcp, order, bc, ui, media, fan>>
    \/ \E enabled \in BOOLEAN :
          VidSetScreenShare(enabled) /\ UNCHANGED <<relayVars, serverVars, clientVars, tcp, order, bc, ui, media, fan>>
    \/ VidStopAll /\ UNCHANGED <<relayVars, serverVars, clientVars, tcp, order, bc, ui, media, fan>>
    \/ VrWhile /\ UNCHANGED <<relayVars, serverVars, clientVars, tcp, order, bc, ui, media, fan>>
    \/ \E outcome \in {"timeout", "packet", "garbage", "oserror"} :
          VrRecv(outcome) /\ UNCHANGED <<relayVars, serverVars, clientVars, tcp, order, bc, ui, media, fan>>

InitExt == InitTcp /\ InitOrder /\ InitBc /\ InitUi /\ InitMedia /\ InitFan /\ InitVid

InitClients ==
    /\ wire = [d \in Conns |-> <<>>]
    /\ inbox = [d \in Conns |-> <<>>]
    /\ src = <<>>
    /\ up = IdleSender
    /\ nm = IdleManager
    /\ downloads = [f \in BaseNames |-> NoBytes]
    /\ task = NoTask

\* both clients have completed the handshake, as alice and as bob; the
\* uploading client's file is any of the files of at most MaxDataLen bytes
InitRoundTrip ==
    /\ InitRelay
    /\ InitExt
    /\ storage \in StartupStorages
    /\ available_files =
          IF storage["a.txt"] # NoBytes THEN <<CachedRecord("a.txt", storage)>> ELSE <<>>
    /\ connState = [d \in Conns |-> IF d \in {Uploader, Downloader} THEN "live" ELSE "closed"]
    /\ username = [d \in Conns |-> CASE d = Uploader -> "alice"
                                     [] d = Downloader -> "bob"
                                     [] OTHER -> None]
    /\ clients = username
    /\ usernames = [n \in Names |-> CASE n = "alice" -> Uploader
                                      [] n = "bob" -> Downloader
                                      [] OTHER -> None]
    /\ receiving_files = [n \in Names |-> NoHandle]
    /\ fe_local = [d \in Conns |-> NoFe]
    /\ outbox = NoOut
    /\ ev = NoEv
    /\ uploads = 0
    /\ wire = [d \in Conns |-> <<>>]
    /\ inbox = [d \in Conns |-> <<>>]
    /\ src \in SeqsUpTo(Bytes, MaxDataLen)
    /\ up = IdleSender
    /\ nm = IdleManager
    /\ downloads = [f \in BaseNames |-> NoBytes]
    /\ task = NoTask

NextRoundTrip ==
    \/ \E filename \in BaseNames : upload_file(filename)
    \/ FileSenderChunk
    \/ FileSenderEnd
    \/ \E conn \in FileConns : ServeUploadStart(conn)
    \/ \E conn \in FileConns : ServeFileChunk(conn)
    \/ \E conn \in FileConns : ServeFileEnd(conn)
    \/ \E conn \in FileConns : ServeFileEndStore(conn)
    \/ \E conn \in FileConns : ServeFileEndAnnounce(conn)
    \/ \E conn \in FileConns : ServeFileListRequest(conn)
    \/ \E conn \in FileConns : ServeDownloadRequest(conn)
    \/ \E conn \in FileConns : ServeDisconnect(conn)
    \/ FileSenderToClient
    \/ request_file_list
    \/ \E offer \in SeqToSet(nm.file_list) : request_file_download(offer)
    \/ run_chat_listener

MaxOverlapLen == 3

\* the round trip with a second download requested during the first
NextOverlap ==
    \/ NextRoundTrip
    \/ \E offer \in SeqToSet(nm.file_list) : request_file_download_again(offer)

\* the client with and without the mss module
InitMediaAny ==
    /\ InitRelay /\ InitServer /\ InitClients
    /\ InitTcp /\ InitOrder /\ InitBc /\ InitUi /\ InitFan /\ InitVid
    /\ \E mss \in BOOLEAN : media = NewManager(mss)

Init == InitRelay /\ InitServer /\ InitClients /\ InitExt

SpecWire == Init /\ [][NextWire]_vars

SpecBroadcast == Init /\ [][NextBroadcast]_vars

SpecPresenter == Init /\ [][NextPresenter]_vars

SpecMedia == InitMediaAny /\ [][NextMedia]_vars

SpecChatOrder == Init /\ [][NextFan]_vars

SpecVideo == Init /\ [][NextVideo]_vars

SpecRelay == Init /\ [][NextRelay]_vars

Spec == Init /\ [][NextChat]_vars

SpecFiles == Init /\ [][NextFiles]_vars

SpecDownload == Init /\ [][NextDownload]_vars

SpecRoundTrip == InitRoundTrip /\ [][NextRoundTrip]_vars

\* the uploading client's file is at most MaxOverlapLen bytes long
InitOverlap == InitRoundTrip /\ Len(src) <= MaxOverlapLen

SpecOverlap == InitOverlap /\ [][NextOverlap]_vars

(***************************************************************************)
(* Claims about the relay                                                  *)
(***************************************************************************)
\* C10: a datagram received from A is forwarded to exactly the known addresses
\* (A's own entry included in "known" once stored) whose last-seen age at the
\* time of the loop does not exceed the timeout, minus A; each at most once.
C10_ForwardSet ==
    relay_ev.kind = "datagram" =>
        /\ SeqToSet(relay_ev.sent) =
              {a \in SeqToSet(DictKeys(relay_ev.before)) :
                  relay_ev.now - DictGet(relay_ev.before, a) <= ClientTimeout}
              \ {relay_ev.from}
        /\ Cardinality(SeqToSet(relay_ev.sent)) = Len(relay_ev.sent)
        /\ relay_ev.from \notin SeqToSet(relay_ev.sent)

\* a datagram from Y while a fresh peer and a stale peer X are both known:
\* forwarded to the fresh one, not to X
C10_Witness ==
    /\ relay_ev.kind = "datagram"
    /\ Len(relay_ev.sent) >= 1
    /\ \E x \in SeqToSet(DictKeys(relay_ev.before)) :
          /\ x # relay_ev.from
          /\ relay_ev.now - DictGet(relay_ev.before, x) > ClientTimeout
          /\ x \notin SeqToSet(relay_ev.sent)


(***************************************************************************)
(* Claims about the control server                                         *)
(***************************************************************************)
\* the records of one type in what a step wrote to a connection
OfType(out, type) == SelectSeq(out, LAMBDA r : r.type = type)

\* the chat_message records that carry a user's chat (not a system notice)
UserChats(out) ==
    SelectSeq(out, LAMBDA r : r.type = "chat_message" /\ r.from # "System")

PrivateChats(out) ==
    SelectSeq(out, LAMBDA r : r.type = "chat_message" /\ r.private)

\* usernames are unique among the live sessions
UniqueUsernames ==
    \A c, d \in Conns : (c # d /\ clients[c] # None) => clients[c] # clients[d]

\* C1: of two connections that reply the same username while both handshakes
\* are under way, exactly one is accepted: two connections are never both
\* registered, accepted, under one username.
C1_OneAcceptance ==
    \A c, d \in Conns :
        (c # d /\ connState[c] = "live" /\ connState[d] = "live")
            => clients[c] # clients[d]

\* C2: a broadcast chat of U reaches every other live session exactly once and
\* never U's own connection.
C2_BroadcastToOthersOnly ==
    (ev.kind = "chat" /\ ev.to = "broadcast") =>
        /\ \A d \in ev.live \ {ev.conn} : Len(UserChats(outbox[d])) = 1
        /\ UserChats(outbox[ev.conn]) = <<>>

\* C3: a private chat of live U to live R (R # U) puts exactly one private
\* chat_message on R's connection, one on U's, and none on any other.
C3_PrivateToRecipientAndSender ==
    (/\ ev.kind = "chat"
     /\ ev.to \in Names
     /\ ev.to # ev.user
     /\ ev.dir[ev.to] # None) =>
        LET r == ev.dir[ev.to]
            m == ChatMessage(ev.user, <<"text", "hi">>, TRUE)
        IN  /\ PrivateChats(outbox[r]) = <<m>>
            /\ PrivateChats(outbox[ev.conn]) = <<m>>
            /\ \A d \in Conns \ {r, ev.conn} : PrivateChats(outbox[d]) = <<>>

\* C4: a private chat of U to a name that no live session has puts exactly
\* one error record on U's connection and no chat on any connection.
C4_PrivateToAbsentRecipient ==
    (/\ ev.kind = "chat"
     /\ ev.to # "broadcast"
     /\ \A d \in Conns : ev.names[d] # ev.to) =>
        /\ Len(OfType(outbox[ev.conn], "error")) = 1
        /\ \A d \in Conns : UserChats(outbox[d]) = <<>>

\* what a handler found: every live session is the one its username maps to
DirectoryConsistent ==
    \A c \in Conns : ev.names[c] # None => ev.dir[ev.names[c]] = c

Announcements(out) == OfType(out, "new_file_available")

\* C5: U's upload of a plain filename f (upload_start{f}, chunks of n bytes in
\* all, file_end{f}), with usernames unique, announces {f, n, U}: file_end
\* builds that record, every live session but U gets it exactly once, U does
\* not, and no other step writes a new_file_available record.
C5_UploadAnnouncedOnce ==
    /\ (/\ ev.kind = "file_end"
        /\ DirectoryConsistent
        /\ ev.file \in BaseNames
        /\ ev.sink # NoHandle /\ ~ev.sink.closed /\ ev.sink.path = ev.file) =>
           /\ ~ev.raised
           /\ fe_local[ev.conn].announcement =
                 Announcement(ev.file, ev.sink.pos + Len(ev.sink.buf), ev.user)
    /\ (ev.kind = "file_end_done" /\ DirectoryConsistent) =>
           LET a == available_files[Len(available_files)]
           IN  /\ a.filename = ev.file /\ a.from = ev.user
               /\ \A d \in ev.live \ {ev.conn} : Announcements(outbox[d]) = <<a>>
               /\ Announcements(outbox[ev.conn]) = <<>>
    /\ ev.kind # "file_end_done" => \A d \in Conns : Announcements(outbox[d]) = <<>>

\* no thread is between the lines of handle_file_end
UploadsCompleted == \A c \in Conns : connState[c] \notin {"fe_assign", "fe_append"}

UniqueFilenames(files) ==
    \A i, j \in 1..Len(files) : files[i].filename = files[j].filename => i = j

\* C6: once the uploads are completed the registry holds at most one record
\* per filename, and so does a FILE_LIST_UPDATE reply (stated of the states
\* whose live sessions have distinct usernames).
C6_OneRecordPerFilename ==
    /\ (UploadsCompleted /\ UniqueUsernames) => UniqueFilenames(available_files)
    /\ (ev.kind = "file_list" /\ UploadsCompleted /\ UniqueUsernames) =>
           \A i \in 1..Len(outbox[ev.conn]) :
               outbox[ev.conn][i].type = "FILE_LIST_UPDATE"
                   => UniqueFilenames(outbox[ev.conn][i].files)

\* C7: the size of every record of the registry is the length of its file on
\* disk, and the size file_end records is the number of bytes written through
\* the sink it closed.
C7_RecordSizeIsFileLength ==
    /\ \A i \in 1..Len(available_files) :
           LET f == available_files[i]
           IN  storage[f.filename] # NoBytes /\ f.size = Len(storage[f.filename])
    /\ (ev.kind = "file_end" /\ fe_local[ev.conn] # NoFe) =>
           fe_local[ev.conn].announcement.size = ev.sink.pos + Len(ev.sink.buf)

\* the files of the sinks that are open
OpenSinks ==
    {receiving_files[n].path : n \in {m \in Names : ~receiving_files[m].closed}}

\* C8: no file with an open sink is listed in the registry or in a
\* FILE_LIST_UPDATE reply.
C8_OpenSinkNotListed ==
    /\ \A i \in 1..Len(available_files) : available_files[i].filename \notin OpenSinks
    /\ ev.kind = "file_list" =>
           \A i \in 1..Len(outbox[ev.conn]) :
               outbox[ev.conn][i].type = "FILE_LIST_UPDATE" =>
                   \A j \in 1..Len(outbox[ev.conn][i].files) :
                       outbox[ev.conn][i].files[j].filename \notin OpenSinks

(***************************************************************************)
(* Claims about the round trip                                             *)
(***************************************************************************)
\* the entries of the downloading client's file list for the uploaded file
ListedUpload == SelectSeq(nm.file_list, LAMBDA f : f.filename = up.filename)

\* C9: when the file list is requested after the upload of f with bytes D
\* completed, the list received has exactly one entry for f, of size |D|, and
\* once file_recv_complete(f) is emitted the local file f holds exactly D.
C9_RoundTrip ==
    nm.fresh =>
        /\ nm.phase \in {"listed", "downloading", "complete"} =>
               /\ Len(ListedUpload) = 1
               /\ ListedUpload[1].filename = up.filename
               /\ ListedUpload[1].size = Len(src)
        /\ (nm.phase = "complete" /\ nm.current_download_filename = up.filename) =>
               /\ nm.completed = up.filename
               /\ nm.file_save_handle = NoHandle
               /\ downloads[up.filename] = src

\* a file of several chunks, the last one short, went round
C9_Witness ==
    /\ nm.fresh
    /\ nm.phase = "complete"
    /\ nm.completed = up.filename
    /\ Len(src) > ChunkSize
    /\ Len(src) % ChunkSize # 0
    /\ \E i, j \in 1..Len(src) : src[i] # src[j]
    /\ downloads[up.filename] = src

(***************************************************************************)
(* Claims about the bytes of a connection                                  *)
(***************************************************************************)
\* C11: the writes of the threads that write to one connection are
\* serialized: the bytes of the connection are at all times whole record
\* lines one after the other (the last one possibly still being written).
C11_WholeRecords ==
    \A s \in Socks : \A i \in 1..Len(tcp.stream[s]) :
        LET b == tcp.stream[s][i] IN
        IF b.pos = 1
        THEN i > 1 => tcp.stream[s][i - 1].pos = LineLen
        ELSE /\ i > 1
             /\ tcp.stream[s][i - 1] = [b EXCEPT !.pos = b.pos - 1]


(***************************************************************************)
(* Claims about broadcasts under concurrent joins and disconnects          *)
(***************************************************************************)
\* C12: a broadcast works on a consistent snapshot of the directory: a join
\* or disconnect during it never makes it fail part-way or tears down the
\* broadcasting session (no broadcast raises), and a broadcast that ends
\* has written to every session that was live throughout it.
C12_BroadcastUndisturbed ==
    /\ bc.ev.kind # "raise"
    /\ bc.ev.kind = "end" => bc.ev.stable \subseteq bc.ev.sent

(***************************************************************************)
(* Claims about the presenter                                              *)
(***************************************************************************)
C13Kinds == <<"webcam", "webcam", "screen", "screen", "webcam">>

\* C13: when the envelopes received are those of a single peer p, with kinds
\* webcam, webcam, screen, screen, webcam, then after each of them
\* presenter_username is p exactly after the third and the fourth: not p
\* after the two webcams, p from the first screen through the second, and
\* no longer p at the later webcam.
C13_SinglePeerPresenter ==
    \A p \in Peers :
        (/\ ui.last = "feed"
         /\ Len(ui.log) <= Len(C13Kinds)
         /\ \A i \in 1..Len(ui.log) :
               ui.log[i] = [username |-> p, frame_type |-> C13Kinds[i]])
        => (ui.presenter_username = p <=> Len(ui.log) \in {3, 4})

\* the whole sequence was received from P
C13_Witness ==
    /\ ui.last = "feed"
    /\ ui.log = [i \in 1..Len(C13Kinds) |-> [username |-> "P", frame_type |-> C13Kinds[i]]]
    /\ ui.presenter_username # "P"

\* the index in the log of peer p's latest envelope (0: none)
LatestOf(p) ==
    LET is == {i \in 1..Len(ui.log) : ui.log[i].username = p}
    IN  IF is = {} THEN 0 ELSE CHOOSE i \in is : \A j \in is : j <= i

\* the peers whose latest envelope is kind = screen
ScreenPeers == {p \in Peers : LatestOf(p) > 0 /\ ui.log[LatestOf(p)].frame_type = "screen"}

ScreenWidgets == {i \in 1..Len(ui.video_widgets) : ui.video_widgets[i].frame_type = "screen"}

C15_StopReleasesAll ==
    /\ media.last.op = "stop_all" =>
          /\ media.chat_fd # "open"
          /\ media.video_socket # "open"
          /\ media.audio_socket # "open"
          /\ media.cap = "none"
          /\ media.audio = "none"
          /\ media.file_save_handle = "none"
    /\ (media.stopped /\ media.sender = "exited") => media.cap = "none"

\* C20: no state has both screen sharing and the camera enabled: when
\* enabling screen sharing has taken effect the camera flag is off, and a
\* request to turn the camera on while screen sharing is active is refused
\* (the camera flag stays off and the camera button is not checked).
C20_ScreenShareExcludesCamera ==
    /\ ~(media._screen_share_enabled /\ media._video_enabled)
    /\ (media.last.op = "on_screen_share_toggled" /\ media.last.checked
            /\ media._screen_share_enabled) => ~media._video_enabled
    /\ (media.last.op = "toggle_camera" /\ media.last.checked /\ media.last.sharing) =>
            /\ ~media._video_enabled
            /\ ~ui.cam_button
            /\ media._screen_share_enabled

\* the camera was on when screen sharing was enabled, and later the camera
\* button was clicked while sharing
C20_Witness ==
    /\ media.last.op = "toggle_camera"
    /\ media.last.checked
    /\ media.last.sharing
    /\ media._screen_share_enabled
    /\ media.sender = "body"

(***************************************************************************)
(* Claims about what ends a session                                        *)
(***************************************************************************)
\* the steps that handle a control record of an established session
RecordKinds == {"chat", "users", "upload_start", "upload_start_failed", "file_chunk",
                "file_end", "file_end_assign", "file_end_done", "file_list",
                "download_request"}

\* C16: no control record, whatever its kind and fields, tears the session
\* down: the step that handles it raises nothing out of the main loop, and
\* the session is still registered and its connection open after it.
C16_RecordsKeepSession ==
    (ev.kind \in RecordKinds /\ DirectoryConsistent /\ UniqueUsernames) =>
        /\ ~ev.raised
        /\ connState[ev.conn] # "closed"
        /\ clients[ev.conn] # None

(***************************************************************************)
(* Claims about the handshake                                              *)
(***************************************************************************)
\* the join notices and user lists written by the last step
Notices(out) == {d \in Conns : OfType(out[d], "chat_message") # <<>> 
                                   \/ OfType(out[d], "user_list") # <<>>}

\* C17: a handshake reply that is empty, or equal to the username of a
\* session live when it is tested, is refused: the connection is closed,
\* neither map gets an entry, and no join notice or user list is written.
C17_RefusedReply ==
    (/\ ev.kind \in {"check", "refuse"}
     /\ Strip(ev.to) = "" \/ \E d \in Conns : ev.names[d] = Strip(ev.to))
    => /\ ev.kind = "refuse"
       /\ connState[ev.conn] = "closed"
       /\ clients = ev.names
       /\ usernames = ev.dir
       /\ Notices(outbox) = {}

\* the records of the given types among those written to a connection, in order
Typed(out, types) == SelectSeq(out, LAMBDA r : r.type \in types)

\* C18: when U is accepted the session is registered in both maps, and
\* every session live then, U's own included, is written a join notice for
\* U followed by a user list whose users are exactly the usernames of the
\* live sessions; no other connection is written to.
C18_JoinBroadcast ==
    ev.kind = "accept" =>
        /\ clients[ev.conn] = ev.user
        /\ usernames[ev.user] = ev.conn
        /\ \A d \in Conns :
              IF clients[d] # None
              THEN LET w == Typed(outbox[d], {"chat_message", "user_list"})
                   IN  /\ Len(w) = 2
                       /\ w[1] = ChatMessage("System", <<"joined", ev.user>>, FALSE)
                       /\ w[2].type = "user_list"
                       /\ w[2].users = {clients[c] : c \in Live(clients)}
              ELSE outbox[d] = <<>>

(***************************************************************************)
(* Claims about downloads                                                  *)
(***************************************************************************)
\* the step handles a download_request naming a file that is not in storage
AbsentRequested ==
    /\ ev'.kind = "download_request"
    /\ ev'.file # None
    /\ storage[Basename(ev'.file)] = NoBytes

\* C19: a download_request naming a file absent from storage writes exactly
\* one error record to the requester and nothing else (no file_chunk, no
\* file_end), writes nothing to any other session, starts no transfer, and
\* leaves the registry, the sinks, the storage and the sessions as they were.
C19_AbsentFileError ==
    [][AbsentRequested =>
          /\ Len(outbox'[ev'.conn]) = 1
          /\ outbox'[ev'.conn][1].type = "error"
          /\ \A d \in Conns \ {ev'.conn} : outbox'[d] = <<>>
          /\ task' = task
          /\ ~task'.active
          /\ available_files' = available_files
          /\ receiving_files' = receiving_files
          /\ storage' = storage
          /\ clients' = clients
          /\ usernames' = usernames]_vars

\* an absent file was requested while another session was live and a sink
\* was open
C19_Witness ==
    /\ ev.kind = "download_request"
    /\ ev.file = "b.txt"
    /\ storage["b.txt"] = NoBytes
    /\ Cardinality(Live(clients)) = 2
    /\ \E n \in Names : receiving_files[n] # NoHandle
    /\ OfType(outbox[ev.conn], "error") # <<>>

(***************************************************************************)
(* Claims about concurrent file_end handling                               *)
(***************************************************************************)
\* the filenames of the records of a registry
Listed(files) == {files[i].filename : i \in 1..Len(files)}

\* C21: file_end handling by the threads of different users loses no
\* registry update and creates no duplicate: the step that replaces the
\* records of its own filename removes no record of another filename, and
\* once a file_end is done with no other in progress the registry has a
\* record for its filename and at most one record per filename.
C21_NoLostOrDuplicateRecord ==
    [][(UniqueUsernames /\ UniqueUsernames') =>
          /\ ev'.kind = "file_end_assign" =>
                Listed(available_files) \ {ev'.file} \subseteq Listed(available_files')
          /\ (ev'.kind = "file_end_done" /\ UploadsCompleted') =>
                /\ ev'.file \in Listed(available_files')
                /\ UniqueFilenames(available_files')]_vars

(***************************************************************************)
(* Claims about the relay's membership map                                 *)
(***************************************************************************)
\* C22: after the relay has processed a datagram no entry of the membership
\* map is older than the timeout, the sender's entry is present with the
\* time the datagram was received as its last-seen time, and every other
\* entry that remains is as it was.
C22_MembershipLifecycle ==
    relay_ev.kind = "datagram" =>
        /\ \A i \in 1..Len(relay_clients) :
              relay_ev.now - relay_clients[i].seen <= ClientTimeout
        /\ DictHas(relay_clients, relay_ev.from)
        /\ DictGet(relay_clients, relay_ev.from) = DictGet(relay_ev.before, relay_ev.from)
        /\ \A i \in 1..Len(relay_clients) :
              \E j \in 1..Len(relay_ev.before) : relay_ev.before[j] = relay_clients[i]

\* the peers the relay forwards a datagram to: the entries not older than
\* the timeout when the loop runs, but the sender
Eligible ==
    {a \in SeqToSet(DictKeys(relay_ev.before)) :
        /\ relay_ev.now - DictGet(relay_ev.before, a) <= ClientTimeout
        /\ a # relay_ev.from}

\* C23: a sendto that fails for one peer keeps no other eligible peer from
\* getting the datagram and does not stop the loop; a recvfrom that fails
\* leaves the membership map as it was, and the loop goes on.
C23_FailuresAreSkipped ==
    /\ relay_ev.kind # "crashed"
    /\ relay_ev.kind = "datagram" =>
          /\ SeqToSet(relay_ev.delivered) = Eligible \ relay_ev.failed
          /\ Len(relay_ev.delivered) = Cardinality(Eligible \ relay_ev.failed)
    /\ relay_ev.kind = "recv_error" => relay_clients = relay_ev.before

\* a sendto failed for a peer that was not the last one, another peer got
\* the datagram after it
C23_Witness ==
    /\ relay_ev.kind = "datagram"
    /\ relay_ev.failed # {}
    /\ Len(relay_ev.sent) >= 2
    /\ relay_ev.sent[1] \in relay_ev.failed
    /\ relay_ev.delivered # <<>>

(***************************************************************************)
(* Claims about lines that are no record                                   *)
(***************************************************************************)
\* C24: a line that cannot be parsed, or a record of no recognized kind, is
\* skipped: the connection stays open and its thread in the main loop, the
\* session stays registered, the two maps, the file registry, the sinks and
\* their files are as before, and nothing is written to any connection.
C24_LineSkipped ==
    [][ev'.kind = "line" =>
          /\ connState'[ev'.conn] = "live"
          /\ ~ev'.raised
          /\ clients' = clients
          /\ usernames' = usernames
          /\ available_files' = available_files
          /\ receiving_files' = receiving_files
          /\ storage' = storage
          /\ outbox' = NoOut]_vars

(***************************************************************************)
(* Claims about an upload whose sink cannot be opened                      *)
(***************************************************************************)
\* the user of conn has the handle of an earlier upload, closed by an
\* upload_start whose open failed, still in receiving_files
FailedSink(conn) ==
    /\ username[conn] \in Names
    /\ receiving_files[username[conn]] # NoHandle
    /\ receiving_files[username[conn]].closed

\* C25: when the open of U's upload_start fails, one error record is written
\* to U and nothing to any other session, the sessions and the other users'
\* sinks are as before, and a later file_chunk or file_end of U for that
\* upload creates no record in the registry.
C25_FailedOpenIsScoped ==
    [][(DirectoryConsistent' /\ UniqueUsernames /\ UniqueUsernames') =>
          /\ ev'.kind = "upload_start_failed" =>
                /\ Len(outbox'[ev'.conn]) = 1
                /\ outbox'[ev'.conn][1].type = "error"
                /\ \A d \in Conns \ {ev'.conn} : outbox'[d] = <<>>
                /\ clients' = clients /\ usernames' = usernames
                /\ available_files' = available_files
                /\ \A n \in Names \ {ev'.user} : receiving_files'[n] = receiving_files[n]
          /\ (ev'.kind \in {"file_chunk", "file_end"} /\ FailedSink(ev'.conn)) =>
                /\ available_files' = available_files
                /\ fe_local'[ev'.conn] = NoFe
                /\ storage' = storage]_vars

(***************************************************************************)
(* Claims about the end of a session                                       *)
(***************************************************************************)
\* C26: when a live session's connection ends, the broadcasts of its finally
\* block are carried through: neither the leave notice nor the user list
\* after it is cut short by an exception, and each, when it ends, has been
\* written to every session that stayed live throughout it.
C26_LeaveReachesAll ==
    bc.ev.where = "finally" =>
        /\ bc.ev.kind # "raise"
        /\ bc.ev.kind = "end" => bc.ev.stable \subseteq bc.ev.sent

\* C27: when an uploader disconnects between upload_start and file_end, its
\* sink is closed and removed from receiving_files, the registry is as
\* before, no new_file_available is written to any connection, and no
\* thread is left in handle_file_end for it.
C27_PartialUploadDropped ==
    [][(ev'.kind = "disconnect" /\ ev'.sink # NoHandle) =>
          /\ receiving_files'[ev'.user] = NoHandle
          /\ \A n \in Names \ {ev'.user} : receiving_files'[n] = receiving_files[n]
          /\ available_files' = available_files
          /\ \A d \in Conns : Announcements(outbox'[d]) = <<>>
          /\ fe_local' = fe_local
          /\ connState'[ev'.conn] = "closed"]_vars

\* an uploader with bytes in its sink has disconnected
C27_Witness ==
    /\ ev.kind = "disconnect"
    /\ ev.sink # NoHandle
    /\ ~ev.sink.closed
    /\ ev.sink.pos + Len(ev.sink.buf) > 0
    /\ receiving_files[ev.user] = NoHandle

(***************************************************************************)
(* Claims about a user's upload sink                                       *)
(***************************************************************************)
\* the user of the step's connection has a sink that is open
HasOpenSink(e) == e.sink # NoHandle /\ ~e.sink.closed

\* C28: a user has at most one open sink. An upload_start of a user with an
\* open sink closes it and makes the new sink the user's only one; a
\* file_chunk of decodable data is appended to the user's current sink and
\* touches no other user's sink; a file_chunk or file_end of a user with no
\* open sink changes nothing and writes to no connection.
C28_OneSinkPerUser ==
    [][(UniqueUsernames /\ UniqueUsernames') =>
          /\ (ev'.kind = "upload_start" /\ ev'.file # None) =>
                /\ receiving_files'[ev'.user] = NewHandle(Basename(ev'.file))
                /\ \A n \in Names \ {ev'.user} : receiving_files'[n] = receiving_files[n]
          /\ (ev'.kind = "file_chunk" /\ HasOpenSink(ev')) =>
                /\ receiving_files'[ev'.user].path = ev'.sink.path
                /\ ~receiving_files'[ev'.user].closed
                /\ \A n \in Names \ {ev'.user} : receiving_files'[n] = receiving_files[n]
                /\ \A f \in BaseNames \ {ev'.sink.path} : storage'[f] = storage[f]
          /\ (ev'.kind \in {"file_chunk", "file_end"} /\ ~HasOpenSink(ev')) =>
                /\ storage' = storage
                /\ available_files' = available_files
                /\ fe_local'[ev'.conn] = NoFe
                /\ outbox' = NoOut
                /\ ~ev'.raised]_vars

(***************************************************************************)
(* Claims about the order of what a connection receives                    *)
(***************************************************************************)
\* the bytes of the task's file from its offset on
Unsent == SubSeq(storage[task.filepath], task.pos + 1, Len(storage[task.filepath]))

\* a step of the server: a handler thread's or the task's
ServerStep == <<ev, outbox, task>>' # <<ev, outbox, task>>

\* C29: the task of a download_request for a file on disk writes to the
\* requesting connection only, one record a step: the chunk of the file at
\* the offset it has reached, the offsets following one another to the end
\* of the file, then one file_end with the requested filename, after which
\* it writes nothing more.  The steps of other threads in between, which may
\* write records to the same connection, leave the task where it is.
C29_ChunksThenEnd ==
    [][/\ (task.active /\ ev'.kind = "file_sender" /\ ServerStep) =>
             /\ \A d \in Conns \ {task.conn} : outbox'[d] = <<>>
             /\ Len(outbox'[task.conn]) = 1
             /\ IF Unsent # <<>>
                THEN /\ outbox'[task.conn][1].type = "file_chunk"
                     /\ b64decode(outbox'[task.conn][1].data) # <<>>
                     /\ b64decode(outbox'[task.conn][1].data)
                           = SubSeq(Unsent, 1, Len(b64decode(outbox'[task.conn][1].data)))
                     /\ task' = [task EXCEPT
                                   !.pos = @ + Len(b64decode(outbox'[task.conn][1].data))]
                ELSE /\ outbox'[task.conn][1] = [type |-> "file_end", filename |-> task.filename]
                     /\ ~task'.active
       /\ (task.active /\ ev'.kind # "file_sender") => task' = task
       /\ (~task.active /\ task'.active) =>
             /\ ev'.kind = "download_request"
             /\ task'.conn = ev'.conn /\ task'.filename = ev'.file /\ task'.pos = 0
             /\ storage[task'.filepath] # NoBytes
       /\ (~task.active /\ ServerStep) => \A d \in Conns :
             /\ OfType(outbox'[d], "file_chunk") = <<>>
             /\ OfType(outbox'[d], "file_end") = <<>>]_vars

\* a file of several chunks has been sent to the end, and records of other
\* kinds reached the requesting connection among its chunks
C29_Witness ==
    /\ ev.kind = "file_sender"
    /\ outbox[ev.conn] = <<[type |-> "file_end", filename |-> "a.txt"]>>
    /\ Len(storage["a.txt"]) > ChunkSize
    /\ \E i, j, k \in 1..Len(inbox[ev.conn]) :
          /\ i < j /\ j < k
          /\ inbox[ev.conn][i].type = "file_chunk"
          /\ inbox[ev.conn][j].type \notin {"file_chunk", "file_end"}
          /\ inbox[ev.conn][k].type = "file_end"

\* the places of receiver d's stream that hold a record of sender u
From(d, u) == {i \in 1..Len(fan.recv[d]) : fan.recv[d][i].from = u}

\* C30: the chats of one sender reach a receiver in the order they were
\* sent: of two records of the same sender in a receiver's stream, the one
\* sent first comes first, and none comes twice.
C30_PerSenderOrder ==
    \A d, u \in Conns : \A i, j \in From(d, u) :
        i < j => fan.recv[d][i].n < fan.recv[d][j].n

\* V has received U's first and second chat in that order with another
\* sender's chat between them, and W has received chats of two senders in
\* the opposite order to V
C30_Witness ==
    \E V, W, U, T \in Conns :
        /\ U # T /\ V # W
        /\ \E i, j, k \in 1..Len(fan.recv[V]) :
              /\ i < j /\ j < k
              /\ fan.recv[V][i] = [from |-> U, n |-> 1]
              /\ fan.recv[V][j].from = T
              /\ fan.recv[V][k] = [from |-> U, n |-> 2]
              /\ \E a, b \in 1..Len(fan.recv[W]) :
                    /\ a < b
                    /\ fan.recv[W][a] = fan.recv[V][j]
                    /\ fan.recv[W][b] = fan.recv[V][i]

(***************************************************************************)
(* Claims about the client's video workers                                 *)
(***************************************************************************)
\* C31: a sender turn chooses its source by priority, from the flags as the
\* turn finds them: its envelope is tagged screen when screen sharing is on,
\* else webcam when the camera is enabled, else none with no frame; every
\* datagram handed to the socket carries the sender's username and one of
\* the three kinds, and is the envelope the turn built.
C31_SourceByPriority ==
    [][/\ (vid.sender = "choose" /\ vid'.sender = "send") =>
             /\ vid'.payload.username = vid.username
             /\ vid'.payload.frame_type =
                   (IF vid._screen_share_enabled THEN "screen"
                    ELSE IF vid._video_enabled THEN "webcam" ELSE "none")
             /\ vid'.payload.frame_type = "none" => vid'.payload.frame = NoFrame
             /\ vid'.payload.frame_type = "webcam" => vid'.payload.frame \in FrameSizes
       /\ (vid.sender = "choose" /\ vid'.sender = "while") =>
             (~vid._screen_share_enabled /\ vid._video_enabled)
       /\ (vid.sender = "send" /\ vid'.sender = "while" /\ vid'.ev.dgram # NoPayload) =>
             /\ vid'.ev.dgram = vid.payload
             /\ vid'.ev.dgram.username = vid.username
             /\ vid'.ev.dgram.frame_type \in {"screen", "webcam", "none"}]_vars

\* a datagram of each kind has been sent: the last one a screen frame, sent
\* with the camera flag off
C31_Witness ==
    /\ vid.ev.op = "sender_send"
    /\ vid.ev.dgram.frame_type = "screen"
    /\ vid.ev.dgram.frame # NoFrame
    /\ ~vid._video_enabled
    /\ vid.cap = "open"

C33_FailureTearsDown ==
    [][(media.listener = "readline" /\ media._is_running
           /\ media'.last.op = "run_chat_listener" /\ media'.last.checked) =>
          /\ ~media'._is_running
          /\ media'.listener = "exited"
          /\ media'.chat_fd # "open"
          /\ media'.video_socket # "open"
          /\ media'.audio_socket # "open"]_vars

\* a step in which a local device failed in a running session: the audio
\* subsystem could not be initialised, or the camera could not be opened
DeviceFailure ==
    \/ media'.last.op = "audio_init_error"
    \/ /\ media.sender = "body" /\ media'.last.op = "run_video_sender"
       /\ media._is_running
       /\ media._video_enabled /\ ~media'._video_enabled

\* C34: a local device failure leaves the session running: the running flag
\* is true, the control and video sockets are open, and the listener and
\* the video worker are in their loops.
C34_DeviceFailureIsLocal ==
    [][DeviceFailure =>
          /\ media'._is_running
          /\ media'.chat_socket = "open"
          /\ media'.video_socket = "open"
          /\ media'.listener # "exited"
          /\ media'.sender # "exited"]_vars

(***************************************************************************)
(* Claims about presentation mode                                          *)
(***************************************************************************)
\* C35: the view is in presentation mode exactly while the label of some
\* tracked peer is marked screen, and the presenter is then such a peer:
\* with no label marked screen, the presenting peer's label removed by a
\* user list included, presenter_username is None.
C35_PresentationMode ==
    /\ ui.presenter_username # None <=>
          \E i \in 1..Len(ui.video_widgets) : ui.video_widgets[i].frame_type = "screen"
    /\ ui.presenter_username # None =>
          \E i \in 1..Len(ui.video_widgets) :
              /\ ui.video_widgets[i].uname = ui.presenter_username
              /\ ui.video_widgets[i].frame_type = "screen"

\* P was presenting when a user list without P arrived
C35_Witness ==
    /\ ui.last = "user_list"
    /\ "P" \in ScreenPeers
    /\ ~HasWidget(ui.video_widgets, "P")
    /\ HasWidget(ui.video_widgets, "Q")
    /\ ui.presenter_username = None

(***************************************************************************)
(* Claims about the size of media datagrams                                *)
(***************************************************************************)
\* C36: every media datagram the sender put on the wire has an envelope of
\* at most MAX_UDP_PACKET bytes.
C36_DatagramCeiling ==
    vid.ev.op = "sender_send" /\ vid.ev.dgram # NoPayload =>
        EnvelopeSize(vid.ev.dgram) <= MAX_UDP_PACKET

\* C36, second half: a turn of the sender whose frame is too large for one
\* datagram leaves the screen-share and camera flags as they were.
C36_OversizedKeepsFlags ==
    [][vid.sender = "send" /\ EnvelopeSize(vid.payload) > MAX_UDP_PACKET =>
          /\ vid'._screen_share_enabled = vid._screen_share_enabled
          /\ vid'._video_enabled = vid._video_enabled]_vars

(***************************************************************************)
(* Claims about the session directory                                      *)
(***************************************************************************)
\* C37: the two directory maps are mutual inverses: clients[conn] = u
\* exactly when usernames[u] = conn.
C37_DirectoryInverse ==
    \A d \in Conns : \A n \in Names :
        clients[d] = n <=> usernames[n] = d

\* C37, second half: the cleanup of a disconnecting session leaves the
\* usernames entry of every other live session in place.
C37_CleanupIsOwn ==
    [][\A d \in Conns \ {ev'.conn} :
          (ev'.kind = "disconnect" /\ clients[d] # None /\ usernames[clients[d]] = d)
              => usernames'[clients[d]] = d]_vars

(***************************************************************************)
(* Claims about overlapping transfers                                      *)
(***************************************************************************)
\* C38: the record a file_end creates carries the filename of the sink that
\* file_end closed, also when the user's earlier sink was superseded by a
\* second upload_start: no record is made under a superseded name.
C38_RecordNamesClosedSink ==
    (/\ ev.kind = "file_end"
     /\ ev.sink # NoHandle
     /\ fe_local[ev.conn] # NoFe)
    => fe_local[ev.conn].announcement.filename = ev.sink.path

\* C39: the file_end of a download closes the local file of that download:
\* file_recv_complete names the file the client asked for last, the one
\* file_save_handle was opened on, also when a second download was
\* requested before the first one's file_end arrived.
C39_EndClosesOwnFile ==
    nm.phase = "complete" => nm.completed = nm.current_download_filename

\* C39: when file_recv_complete is emitted for a file that no upload
\* touches, the local file holds the bytes of the server's file: all the
\* chunks of that download were written to it, and no others.
C39_FileHoldsOwnChunks ==
    (nm.phase = "complete" /\ up.filename # nm.completed)
        => downloads[nm.completed] = storage[nm.completed]

\* the contents a complete file of the given name has had: the file left
\* from an earlier run, and the uploading client's file once uploaded
WholeContents(filename) ==
    (IF filename = "a.txt" THEN {<<0>>} ELSE {})
        \cup (IF up.filename = filename THEN {src} ELSE {})

\* C40: a download that ended with file_end left in the local file the whole
\* content of the startup file or of a completed upload of that filename,
\* also when the file was being uploaded again while it was sent.
C40_DownloadIsWhole ==
    nm.phase = "complete" => downloads[nm.completed] \in WholeContents(nm.completed)

=============================================================================
